---------------------------- MODULE Spec2Model ----------------------------
(***************************************************************************)
(* TFT_eSPI simulator: the command parser of tft-parser.js (TFTParser) and *)
(* the part of the UI controller of app.js (TFTSimulator) that drives it.  *)
(*                                                                         *)
(* Text is modelled at the character level: a JavaScript string is a       *)
(* sequence of one-character strings.  A JavaScript value is a record      *)
(* [t, n, d, s]: a finite number n/d (t = "num", in lowest terms, d > 0),  *)
(* NaN (t = "nan"), +/-Infinity (t = "inf", n the sign) or a string        *)
(* (t = "str", s its characters).                                          *)
(***************************************************************************)
EXTENDS Integers, Sequences, FiniteSets, TLC

(***************************************************************************)
(* Bounds of the model.                                                    *)
(***************************************************************************)
\* how many lines the editor may hold
MaxLines == 3
\* how many times render() is called in one behaviour
MaxRuns == 2
\* fraction digits Number.prototype.toString is followed for
MaxFracDigits == 6

(***************************************************************************)
(* Characters.                                                             *)
(***************************************************************************)
DigitChars == <<"0", "1", "2", "3", "4", "5", "6", "7", "8", "9">>
HexLower == <<"a", "b", "c", "d", "e", "f">>
HexUpper == <<"A", "B", "C", "D", "E", "F">>
Digits == {DigitChars[k] : k \in 1..10}
LowerLetters == {"a", "b", "c", "d", "e", "f", "g", "h", "i", "j", "k", "l", "m",
                 "n", "o", "p", "q", "r", "s", "t", "u", "v", "w", "x", "y", "z"}
UpperLetters == {"A", "B", "C", "D", "E", "F", "G", "H", "I", "J", "K", "L", "M",
                 "N", "O", "P", "Q", "R", "S", "T", "U", "V", "W", "X", "Y", "Z"}
\* the regular expression class \w
WordChars == Digits \cup LowerLetters \cup UpperLetters \cup {"_"}
\* what String.prototype.trim removes (the line terminator "\n" included)
WhiteSpace == {" ", "\t", "\r", "\n"}
DigitVal(c) == (CHOOSE k \in 1..10 : DigitChars[k] = c) - 1
HexDigits == Digits \cup {HexLower[k] : k \in 1..6} \cup {HexUpper[k] : k \in 1..6}
HexVal(c) ==
    IF c \in Digits THEN DigitVal(c)
    ELSE IF \E k \in 1..6 : HexLower[k] = c
         THEN 9 + (CHOOSE k \in 1..6 : HexLower[k] = c)
         ELSE 9 + (CHOOSE k \in 1..6 : HexUpper[k] = c)

(***************************************************************************)
(* Strings.                                                                *)
(***************************************************************************)
StartsWith(s, p) == Len(s) >= Len(p) /\ SubSeq(s, 1, Len(p)) = p
\* s.slice(from) with a 1-based from
DropFirst(s, k) == SubSeq(s, k + 1, Len(s))
\* whether p occurs in s at 1-based position k
OccursAt(s, p, k) == k >= 1 /\ k + Len(p) - 1 <= Len(s) /\ SubSeq(s, k, k + Len(p) - 1) = p
Contains(s, p) == \E k \in 1..(Len(s) + 1) : OccursAt(s, p, k)

\* the least element of a non-empty set of integers
MinOf(S) == CHOOSE k \in S : \A j \in S : k <= j
MaxOf(S) == CHOOSE k \in S : \A j \in S : k >= j
\* the index after the longest run of characters of set cs that starts at index k
ScanRun(s, k, cs) ==
    LET stops == {j \in k..Len(s) : s[j] \notin cs}
    IN IF stops = {} THEN (IF k > Len(s) THEN k ELSE Len(s) + 1) ELSE MinOf(stops)
\* String.prototype.trim
Trim(s) ==
    LET keep == {j \in 1..Len(s) : s[j] \notin WhiteSpace}
    IN IF keep = {} THEN <<>> ELSE SubSeq(s, MinOf(keep), MaxOf(keep))
TrimLeft(s) ==
    LET keep == {j \in 1..Len(s) : s[j] \notin WhiteSpace}
    IN IF keep = {} THEN <<>> ELSE SubSeq(s, MinOf(keep), Len(s))

RECURSIVE NatToStr(_)
NatToStr(k) == IF k < 10 THEN <<DigitChars[k + 1]>> ELSE NatToStr(k \div 10) \o <<DigitChars[(k % 10) + 1]>>
\* the decimal text of an integer
IntToStr(k) == IF k < 0 THEN <<"-">> \o NatToStr(-k) ELSE NatToStr(k)

\* String.prototype.split('\n'): a list of lines, never empty
SplitLines(s) ==
    LET nl == {k \in 1..Len(s) : s[k] = "\n"}
        \* the index of the j-th line terminator (0 for j = 0, Len(s) + 1 past the last)
        At(j) == IF j = 0 THEN 0
                 ELSE IF j > Cardinality(nl) THEN Len(s) + 1
                 ELSE CHOOSE k \in nl : Cardinality({q \in nl : q < k}) = j - 1
    IN [j \in 1..(Cardinality(nl) + 1) |-> SubSeq(s, At(j - 1) + 1, At(j) - 1)]

\* String.prototype.replace(/\bword\b/g, repl): every occurrence of word that has
\* no word character right before or right after it
WordAt(s, word, k) ==
    /\ OccursAt(s, word, k)
    /\ (k = 1 \/ s[k - 1] \notin WordChars)
    /\ (k + Len(word) > Len(s) \/ s[k + Len(word)] \notin WordChars)
RECURSIVE ReplaceWordFrom(_, _, _, _)
ReplaceWordFrom(s, k, word, repl) ==
    LET hits == {p \in k..Len(s) : WordAt(s, word, p)}
    IN IF hits = {} THEN SubSeq(s, k, Len(s))
       ELSE SubSeq(s, k, MinOf(hits) - 1) \o repl
            \o ReplaceWordFrom(s, MinOf(hits) + Len(word), word, repl)
\* String.prototype.replace(/word/g, repl): every occurrence of word, whatever
\* stands before and after it
RECURSIVE ReplaceEveryFrom(_, _, _, _)
ReplaceEveryFrom(s, k, word, repl) ==
    LET hits == {p \in k..Len(s) : OccursAt(s, word, p)}
    IN IF hits = {} THEN SubSeq(s, k, Len(s))
       ELSE SubSeq(s, k, MinOf(hits) - 1) \o repl
            \o ReplaceEveryFrom(s, MinOf(hits) + Len(word), word, repl)
ReplaceEvery(s, word, repl) == ReplaceEveryFrom(s, 1, word, repl)
ReplaceWord(s, word, repl) == ReplaceWordFrom(s, 1, word, repl)

(***************************************************************************)
(* JavaScript numbers, as exact rationals with NaN and the infinities.     *)
(***************************************************************************)
Abs(k) == IF k < 0 THEN -k ELSE k
RECURSIVE GCD(_, _)
GCD(a, b) == IF b = 0 THEN a ELSE GCD(b, a % b)
V(t, n, d, s) == [t |-> t, n |-> n, d |-> d, s |-> s]
NaN == V("nan", 0, 1, <<>>)
Inf(sgn) == V("inf", sgn, 1, <<>>)
Str(s) == V("str", 0, 1, s)
\* the number n/d, d # 0, in lowest terms
Num(n, d) ==
    LET g == GCD(Abs(n), Abs(d))
        sg == IF d < 0 THEN -1 ELSE 1
    IN V("num", sg * (n \div g), sg * (d \div g), <<>>)
IntV(k) == Num(k, 1)
IsNum(v) == v.t = "num"
IsStr(v) == v.t = "str"
Sign(v) == IF v.n > 0 THEN 1 ELSE IF v.n < 0 THEN -1 ELSE 0
\* a < b for finite numbers
NumLess(a, b) == a.n * b.d < b.n * a.d

\* the arithmetic of the operators + - * / on numbers (IEEE special values kept,
\* the sign of zero not)
Neg(a) == IF a.t = "str" THEN NaN ELSE V(a.t, -a.n, a.d, <<>>)
NumAdd(a, b) ==
    IF a.t = "nan" \/ b.t = "nan" THEN NaN
    ELSE IF a.t = "inf" /\ b.t = "inf" THEN (IF a.n = b.n THEN a ELSE NaN)
    ELSE IF a.t = "inf" THEN a
    ELSE IF b.t = "inf" THEN b
    ELSE Num(a.n * b.d + b.n * a.d, a.d * b.d)
NumSub(a, b) == NumAdd(a, Neg(b))
NumMul(a, b) ==
    IF a.t = "nan" \/ b.t = "nan" THEN NaN
    ELSE IF a.t = "inf" \/ b.t = "inf"
         THEN (IF Sign(a) * Sign(b) = 0 THEN NaN ELSE Inf(Sign(a) * Sign(b)))
    ELSE Num(a.n * b.n, a.d * b.d)
NumDiv(a, b) ==
    IF a.t = "nan" \/ b.t = "nan" THEN NaN
    ELSE IF a.t = "inf" THEN (IF b.t = "inf" THEN NaN ELSE Inf(IF Sign(b) < 0 THEN -a.n ELSE a.n))
    ELSE IF b.t = "inf" THEN IntV(0)
    ELSE IF b.n = 0 THEN (IF a.n = 0 THEN NaN ELSE Inf(Sign(a)))
    ELSE Num(a.n * b.d, a.d * b.n)

\* Number.prototype.toString for the values the model computes: the decimal
\* expansion, followed for at most MaxFracDigits fraction digits
RECURSIVE FracDigits(_, _, _)
FracDigits(r, d, k) ==
    IF r = 0 \/ k = 0 THEN <<>>
    ELSE <<DigitChars[((r * 10) \div d) + 1]>> \o FracDigits((r * 10) % d, d, k - 1)
NumToStr(v) ==
    IF v.t = "nan" THEN <<"N", "a", "N">>
    ELSE IF v.t = "inf"
         THEN (IF v.n < 0 THEN <<"-">> ELSE <<>>) \o <<"I", "n", "f", "i", "n", "i", "t", "y">>
    ELSE IF v.d = 1 THEN IntToStr(v.n)
    ELSE (IF v.n < 0 THEN <<"-">> ELSE <<>>)
         \o NatToStr(Abs(v.n) \div v.d) \o <<".">>
         \o FracDigits(Abs(v.n) % v.d, v.d, MaxFracDigits)
\* ToString of any value
ToStr(v) == IF IsStr(v) THEN v.s ELSE NumToStr(v)

RECURSIVE Pow10(_)
Pow10(k) == IF k = 0 THEN 1 ELSE 10 * Pow10(k - 1)
\* the value of the digits s[from .. to-1] in the given base
RECURSIVE DigitsValue(_, _, _, _)
DigitsValue(s, from, to, base) ==
    IF to <= from THEN 0
    ELSE base * DigitsValue(s, from, to - 1, base) + HexVal(s[to - 1])
CharAt(s, k) == IF k >= 1 /\ k <= Len(s) THEN s[k] ELSE ""

\* the longest prefix of s that is a decimal literal (sign, digits, fraction,
\* exponent, or Infinity), as parseFloat reads it: [v, end], end the index after
\* the prefix; v is NaN when there is none.  p1 is the index after the sign, i1 the
\* index after the integer digits, f1 after the fraction, q1 the first exponent
\* digit, e1 the index after the exponent digits.
Scale10(m, ex) == IF ex >= 0 THEN NumMul(m, Num(Pow10(ex), 1)) ELSE NumDiv(m, Num(Pow10(-ex), 1))
Signed(neg, v) == IF neg THEN Neg(v) ELSE v
FloatMantissa(s, p1, i1, f1, nFrac) ==
    Num(DigitsValue(s, p1, i1, 10) * Pow10(nFrac) + DigitsValue(s, i1 + 1, f1, 10), Pow10(nFrac))
FloatExp(s, neg, mant, f1, q1, e1) ==
    IF CharAt(s, f1) \in {"e", "E"} /\ e1 > q1
    THEN [v |-> Signed(neg, Scale10(mant, (IF CharAt(s, q1 - 1) = "-" THEN -1 ELSE 1)
                                          * DigitsValue(s, q1, e1, 10))),
          end |-> e1]
    ELSE [v |-> Signed(neg, mant), end |-> f1]
FloatExpAt(s, neg, mant, f1, q1) == FloatExp(s, neg, mant, f1, q1, ScanRun(s, q1, Digits))
FloatFrac(s, neg, p1, i1, f1) ==
    IF (i1 - p1) + (IF f1 > i1 THEN f1 - i1 - 1 ELSE 0) = 0 THEN [v |-> NaN, end |-> 1]
    ELSE FloatExpAt(s, neg, FloatMantissa(s, p1, i1, f1, IF f1 > i1 THEN f1 - i1 - 1 ELSE 0), f1,
                    IF CharAt(s, f1 + 1) \in {"+", "-"} THEN f1 + 2 ELSE f1 + 1)
FloatInt(s, neg, p1, i1) ==
    FloatFrac(s, neg, p1, i1, IF CharAt(s, i1) = "." THEN ScanRun(s, i1 + 1, Digits) ELSE i1)
FloatFrom(s, neg, p1) ==
    IF OccursAt(s, <<"I", "n", "f", "i", "n", "i", "t", "y">>, p1)
    THEN [v |-> Inf(IF neg THEN -1 ELSE 1), end |-> p1 + 8]
    ELSE FloatInt(s, neg, p1, ScanRun(s, p1, Digits))
FloatPrefix(s) == FloatFrom(s, CharAt(s, 1) = "-", IF CharAt(s, 1) \in {"+", "-"} THEN 2 ELSE 1)
\* parseFloat(string)
ParseFloat(s) == FloatPrefix(TrimLeft(s)).v
\* parseInt(string, 16): sign, an optional 0x, then hex digits from p2 to e - 1
HexRun(t, neg, p2, e) ==
    IF e = p2 THEN NaN ELSE Num((IF neg THEN -1 ELSE 1) * DigitsValue(t, p2, e, 16), 1)
HexFrom(t, neg, p2) == HexRun(t, neg, p2, ScanRun(t, p2, HexDigits))
HexSigned(t, p1) ==
    HexFrom(t, CharAt(t, 1) = "-",
            IF CharAt(t, p1) = "0" /\ CharAt(t, p1 + 1) \in {"x", "X"} THEN p1 + 2 ELSE p1)
HexTrimmed(t) == HexSigned(t, IF CharAt(t, 1) \in {"+", "-"} THEN 2 ELSE 1)
ParseIntHex(s) == HexTrimmed(TrimLeft(s))
\* ToNumber of any value: a string counts as a number only as a whole
WholeFloat(t, fp) == IF fp.v.t # "nan" /\ fp.end = Len(t) + 1 THEN fp.v ELSE NaN
StringToNumber(t) ==
    IF t = <<>> THEN Num(0, 1)
    ELSE IF CharAt(t, 1) = "0" /\ CharAt(t, 2) \in {"x", "X"}
         THEN (IF Len(t) > 2 /\ ScanRun(t, 3, HexDigits) = Len(t) + 1 THEN HexTrimmed(t) ELSE NaN)
         ELSE WholeFloat(t, FloatPrefix(t))
ToNumber(v) == IF ~IsStr(v) THEN v ELSE StringToNumber(Trim(v.s))
\* Math.min(a, b) and Math.max(a, b)
NumMin(x, y) ==
    IF x.t = "nan" \/ y.t = "nan" THEN NaN
    ELSE IF x.t = "inf" THEN (IF x.n < 0 THEN x ELSE y)
    ELSE IF y.t = "inf" THEN (IF y.n < 0 THEN y ELSE x)
    ELSE IF NumLess(y, x) THEN y ELSE x
NumMax(x, y) ==
    IF x.t = "nan" \/ y.t = "nan" THEN NaN
    ELSE IF x.t = "inf" THEN (IF x.n > 0 THEN x ELSE y)
    ELSE IF y.t = "inf" THEN (IF y.n > 0 THEN y ELSE x)
    ELSE IF NumLess(x, y) THEN y ELSE x
MathMin(a, b) == NumMin(ToNumber(a), ToNumber(b))
MathMax(a, b) == NumMax(ToNumber(a), ToNumber(b))
\* the binary + of JavaScript: concatenation as soon as one side is a string
JsAdd(a, b) ==
    IF IsStr(a) \/ IsStr(b) THEN Str(ToStr(a) \o ToStr(b)) ELSE NumAdd(a, b)
\* the low 16 bits of ToInt32(v), which is all that (v >> 11) & 0x1F, (v >> 5) & 0x3F
\* and v & 0x1F read: the value truncated toward zero, modulo 2^16 (0 for NaN and
\* the infinities)
Trunc16(x) ==
    IF x.t # "num" THEN 0
    ELSE (IF x.n >= 0 THEN x.n \div x.d ELSE -((-x.n) \div x.d)) % 65536
Low16(v) == Trunc16(ToNumber(v))

\* parseInt(text), no radix given: white space, a sign, then hexadecimal digits after
\* 0x or else decimal digits; NaN when there is no digit
ParseIntDigits(s, sgn, k, e, base) ==
    IF e = k THEN NaN ELSE IntV(sgn * DigitsValue(s, k, e, base))
ParseIntFrom(s, sgn, k) ==
    IF CharAt(s, k) = "0" /\ CharAt(s, k + 1) \in {"x", "X"}
    THEN ParseIntDigits(s, sgn, k + 2, ScanRun(s, k + 2, HexDigits), 16)
    ELSE ParseIntDigits(s, sgn, k, ScanRun(s, k, Digits), 10)
ParseIntSigned(s) ==
    IF CharAt(s, 1) = "-" THEN ParseIntFrom(s, -1, 2)
    ELSE IF CharAt(s, 1) = "+" THEN ParseIntFrom(s, 1, 2)
    ELSE ParseIntFrom(s, 1, 1)
ParseInt(text) == ParseIntSigned(TrimLeft(text))

(***************************************************************************)
(* evaluateExpression: Function('"use strict"; return (' + expr + ')')().  *)
(* The expression is run as JavaScript.  The model follows JavaScript on   *)
(* the fragment below and nowhere else: decimal and hex literals, the      *)
(* binary operators + - * /, unary + and -, parentheses, identifiers (none *)
(* is declared in the function's scope, so reading one throws a            *)
(* ReferenceError), and one piece of host code, HostLoop, a call of a      *)
(* function that never returns.  Any other text counts as a SyntaxError.   *)
(* A result is [st, v, pos]: st is "ok", "throw" (a run-time exception),   *)
(* "syntax" (the function is never created) or "diverge" (the call never   *)
(* returns); pos is the index after the part read.                         *)
(***************************************************************************)
\* (function(){for(;;){}})()
HostLoop == <<"(", "f", "u", "n", "c", "t", "i", "o", "n", "(", ")", "{", "f", "o", "r", "(", ";", ";", ")", "{", "}", "}", ")", "(", ")">>
IdentStart == LowerLetters \cup UpperLetters \cup {"_", "$"}
IdentChars == WordChars \cup {"$"}
ER(st, v, pos) == [st |-> st, v |-> v, pos |-> pos]
SyntaxErr == ER("syntax", NaN, 0)
SkipWs(s, k) == ScanRun(s, k, WhiteSpace)
\* a binary operation: a SyntaxError anywhere wins (nothing runs), otherwise the
\* operands are evaluated left to right and the first that fails decides
Binary(l, r, v) ==
    IF l.st = "syntax" \/ r.st = "syntax" THEN SyntaxErr
    ELSE IF l.st # "ok" THEN ER(l.st, NaN, r.pos)
    ELSE IF r.st # "ok" THEN ER(r.st, NaN, r.pos)
    ELSE ER("ok", v, r.pos)
\* a numeric literal at index k: hex (0x..., digits to hexEnd - 1) or decimal
LiteralEnd(s, r) ==
    \* an identifier may not follow a numeric literal directly
    IF r.st = "ok" /\ CharAt(s, r.pos) \in IdentChars THEN SyntaxErr ELSE r
HexLiteral(s, k, hexEnd) ==
    IF hexEnd = k + 2 THEN SyntaxErr
    ELSE ER("ok", Num(DigitsValue(s, k + 2, hexEnd, 16), 1), hexEnd)
DecimalLiteral(s, k, fp) ==
    IF fp.v.t = "nan" THEN SyntaxErr
    \* strict mode: no legacy octal literal such as 010
    ELSE IF CharAt(s, k) = "0" /\ CharAt(s, k + 1) \in Digits THEN SyntaxErr
    ELSE ER("ok", fp.v, k + fp.end - 1)
NumberLiteral(s, k) ==
    IF CharAt(s, k) = "0" /\ CharAt(s, k + 1) \in {"x", "X"}
    THEN LiteralEnd(s, HexLiteral(s, k, ScanRun(s, k + 2, HexDigits)))
    ELSE LiteralEnd(s, DecimalLiteral(s, k, FloatPrefix(DropFirst(s, k - 1))))

RECURSIVE EvalSum(_, _), EvalSumRest(_, _), EvalProduct(_, _), EvalProductRest(_, _)
RECURSIVE EvalUnary(_, _), EvalPrimary(_, _)
\* ( expression ): inner is the expression read, k2 the index of what follows it
Parenthesized(s, inner, k2) ==
    IF inner.st = "syntax" \/ CharAt(s, k2) # ")" THEN SyntaxErr
    ELSE ER(inner.st, inner.v, k2 + 1)
ParenthesizedAt(s, inner) == Parenthesized(s, inner, SkipWs(s, inner.pos))
\* Math.abs( expression ): a function of the host, called with the value read
MathAbs == <<"M", "a", "t", "h", ".", "a", "b", "s", "(">>
AbsOf(r) ==
    IF r.st # "ok" THEN r
    ELSE ER("ok", IF r.v.t = "str" THEN NaN ELSE IF r.v.n < 0 THEN Neg(r.v) ELSE r.v, r.pos)
PrimaryAt(s, k) ==
    IF OccursAt(s, HostLoop, k) THEN ER("diverge", NaN, k + Len(HostLoop))
    ELSE IF OccursAt(s, MathAbs, k)
         THEN AbsOf(ParenthesizedAt(s, EvalSum(s, k + Len(MathAbs))))
    ELSE IF CharAt(s, k) = "(" THEN ParenthesizedAt(s, EvalSum(s, k + 1))
    ELSE IF CharAt(s, k) \in Digits \cup {"."} THEN NumberLiteral(s, k)
    ELSE IF CharAt(s, k) \in IdentStart THEN ER("throw", NaN, ScanRun(s, k, IdentChars))
    ELSE SyntaxErr
EvalPrimary(s, k0) == PrimaryAt(s, SkipWs(s, k0))
SignedOperand(c, r) ==
    IF r.st # "ok" THEN r ELSE ER("ok", IF c = "-" THEN Neg(r.v) ELSE r.v, r.pos)
UnaryAt(s, k) ==
    IF CharAt(s, k) \in {"-", "+"}
    THEN IF CharAt(s, k + 1) = CharAt(s, k) THEN SyntaxErr  \* -- and ++ need a reference
         ELSE SignedOperand(CharAt(s, k), EvalUnary(s, k + 1))
    ELSE EvalPrimary(s, k)
EvalUnary(s, k0) == UnaryAt(s, SkipWs(s, k0))
Arith(c, l, r) ==
    Binary(l, r, CASE c = "*" -> NumMul(l.v, r.v) [] c = "/" -> NumDiv(l.v, r.v)
                   [] c = "+" -> NumAdd(l.v, r.v) [] OTHER -> NumSub(l.v, r.v))
ProductRestAt(s, l, k) ==
    IF l.st = "syntax" THEN l
    ELSE IF CharAt(s, k) \in {"*", "/"}
         \* ** (exponent) and the comment openers // and /* are outside the fragment
         THEN IF CharAt(s, k + 1) \in {"*", "/"} THEN SyntaxErr
              ELSE EvalProductRest(s, Arith(CharAt(s, k), l, EvalUnary(s, k + 1)))
         ELSE l
EvalProductRest(s, l) == ProductRestAt(s, l, SkipWs(s, l.pos))
EvalProduct(s, k) == EvalProductRest(s, EvalUnary(s, k))
\* a sum that takes * and / as it takes + and -, from left to right
SumRestFlat(s, l, k) ==
    IF l.st = "syntax" THEN l
    ELSE IF CharAt(s, k) \in {"+", "-", "*", "/"}
         THEN EvalSumRest(s, Arith(CharAt(s, k), l, EvalUnary(s, k + 1)))
         ELSE l
SumRestAt(s, l, k) ==
    IF l.st = "syntax" THEN l
    ELSE IF CharAt(s, k) \in {"+", "-"}
         THEN IF CharAt(s, k + 1) = CharAt(s, k) THEN SyntaxErr
              ELSE EvalSumRest(s, Arith(CharAt(s, k), l, EvalProduct(s, k + 1)))
         ELSE l
EvalSumRest(s, l) == SumRestAt(s, l, SkipWs(s, l.pos))
EvalSum(s, k) == EvalSumRest(s, EvalProduct(s, k))

\* the call of the function made from expr: [st, v], st "ok", "throw" or "diverge"
Evaluated(expr, r) ==
    IF r.st = "syntax" \/ SkipWs(expr, r.pos) # Len(expr) + 1 THEN [st |-> "throw", v |-> NaN]
    ELSE [st |-> r.st, v |-> r.v]
JsEval(expr) == Evaluated(expr, EvalSum(expr, 1))
CannotEvaluate == <<"C", "a", "n", "n", "o", "t", " ", "e", "v", "a", "l", "u", "a", "t", "e", " ", "e", "x", "p", "r", "e", "s", "s", "i", "o", "n", ":", " ">>
\* evaluateExpression(expr): [st, v, msg]; every exception of the evaluation is
\* rethrown as Error("Cannot evaluate expression: <expr>")
Rethrown(e, r) ==
    [st |-> r.st, v |-> r.v, msg |-> IF r.st = "throw" THEN CannotEvaluate \o e ELSE <<>>]
evaluateTrimmed(e) == Rethrown(e, JsEval(e))
evaluateExpression(expr) == evaluateTrimmed(Trim(expr))

(***************************************************************************)
(* parseValue and parseArguments.                                          *)
(***************************************************************************)
OperatorChars == {"+", "-", "*", "/", "(", ")"}
TFTPrefix == <<"T", "F", "T", "_">>
\* parseValue(value): [st, v], st "ok" or "diverge"
\* the last two steps: a decimal number, or the text itself
NumberOrText(value, num) ==
    IF num.t # "nan" THEN [st |-> "ok", v |-> num] ELSE [st |-> "ok", v |-> Str(value)]
\* the step for a text with an operator or a parenthesis in it
Expression(value, ev) ==
    IF ev.st = "ok" THEN [st |-> "ok", v |-> ev.v]
    ELSE IF ev.st = "diverge" THEN [st |-> "diverge", v |-> NaN]
    ELSE NumberOrText(value, ParseFloat(value))
parseValue(value) ==
    IF CharAt(value, 1) \in {"\"", "'"}
    THEN [st |-> "ok", v |-> Str(SubSeq(value, 2, Len(value) - 1))]
    ELSE IF StartsWith(value, TFTPrefix) THEN [st |-> "ok", v |-> Str(value)]
    ELSE IF StartsWith(value, <<"0", "x">>) THEN [st |-> "ok", v |-> ParseIntHex(value)]
    ELSE IF \E k \in 1..Len(value) : value[k] \in OperatorChars
         THEN Expression(value, evaluateExpression(value))
         ELSE NumberOrText(value, ParseFloat(value))

\* the loop of parseArguments over argsString from index k: the texts handed to
\* parseValue, in order.  A quote character (not preceded by a backslash) toggles
\* the string state and is not kept; a comma outside strings and parentheses ends
\* an argument; the text after the last comma is an argument unless it is blank.
RECURSIVE SplitArguments(_, _, _, _, _, _)
SplitArguments(s, k, current, inString, stringChar, parenDepth) ==
    IF k > Len(s)
    THEN (IF Trim(current) # <<>> THEN <<Trim(current)>> ELSE <<>>)
    ELSE LET c == s[k]
             depth == IF inString THEN parenDepth
                      ELSE IF c = "(" THEN parenDepth + 1
                      ELSE IF c = ")" THEN parenDepth - 1
                      ELSE parenDepth
         IN IF c \in {"\"", "'"} /\ (k = 1 \/ s[k - 1] # "\\")
            THEN IF ~inString THEN SplitArguments(s, k + 1, current, TRUE, c, parenDepth)
                 ELSE IF c = stringChar
                      THEN SplitArguments(s, k + 1, current, FALSE, "", parenDepth)
                      ELSE SplitArguments(s, k + 1, current, inString, stringChar, parenDepth)
            ELSE IF c = "," /\ ~inString /\ depth = 0
                 THEN <<Trim(current)>> \o SplitArguments(s, k + 1, <<>>, inString, stringChar, depth)
                 ELSE SplitArguments(s, k + 1, Append(current, c), inString, stringChar, depth)
\* the values of the tokens up to the first whose evaluation never returns
RECURSIVE ParseValues(_)
ValuesAfter(first, tokens) ==
    IF first.st = "diverge" THEN [st |-> "diverge", args |-> <<>>]
    ELSE [st |-> ParseValues(tokens).st, args |-> <<first.v>> \o ParseValues(tokens).args]
ParseValues(tokens) ==
    IF tokens = <<>> THEN [st |-> "ok", args |-> <<>>]
    ELSE ValuesAfter(parseValue(Head(tokens)), Tail(tokens))
\* parseArguments(argsString): [st, args]
parseArguments(argsString) ==
    IF Trim(argsString) = <<>> THEN [st |-> "ok", args |-> <<>>]
    ELSE ParseValues(SplitArguments(argsString, 1, <<>>, FALSE, "", 0))

\* line.match(/tft\.(\w+)\s*\((.*)\)/): the leftmost "tft." followed by a run of
\* word characters, white space and "(", with the arguments running to the LAST ")"
\* of the line
TftDot == <<"t", "f", "t", ".">>
LastIndexOf(s, c) == IF \E k \in 1..Len(s) : s[k] = c
                     THEN CHOOSE k \in 1..Len(s) : s[k] = c /\ \A j \in (k + 1)..Len(s) : s[j] # c
                     ELSE 0
MatchesAt(s, p) ==
    LET w == ScanRun(s, p + 4, WordChars)
        o == ScanRun(s, w, WhiteSpace)
    IN OccursAt(s, TftDot, p) /\ w > p + 4 /\ CharAt(s, o) = "(" /\ LastIndexOf(s, ")") > o
MatchCall(s) ==
    IF \E p \in 1..Len(s) : MatchesAt(s, p)
    THEN LET p == CHOOSE q \in 1..Len(s) : MatchesAt(s, q) /\ \A j \in 1..(q - 1) : ~MatchesAt(s, j)
             w == ScanRun(s, p + 4, WordChars)
             o == ScanRun(s, w, WhiteSpace)
         IN [ok |-> TRUE, command |-> SubSeq(s, p + 4, w - 1),
             argsString |-> SubSeq(s, o + 1, LastIndexOf(s, ")") - 1)]
    ELSE [ok |-> FALSE, command |-> <<>>, argsString |-> <<>>]

(***************************************************************************)
(* Colors: the table of the constructor, rgb565ToRgb and resolveColor.     *)
(***************************************************************************)
\* this.colors: name, RGB565 value (0x0000 .. 0xFFFF, in decimal)
colors == <<
    <<<<"T", "F", "T", "_", "B", "L", "A", "C", "K">>, 0>>,
    <<<<"T", "F", "T", "_", "N", "A", "V", "Y">>, 15>>,
    <<<<"T", "F", "T", "_", "D", "A", "R", "K", "G", "R", "E", "E", "N">>, 992>>,
    <<<<"T", "F", "T", "_", "D", "A", "R", "K", "C", "Y", "A", "N">>, 1007>>,
    <<<<"T", "F", "T", "_", "M", "A", "R", "O", "O", "N">>, 30720>>,
    <<<<"T", "F", "T", "_", "P", "U", "R", "P", "L", "E">>, 30735>>,
    <<<<"T", "F", "T", "_", "O", "L", "I", "V", "E">>, 31712>>,
    <<<<"T", "F", "T", "_", "L", "I", "G", "H", "T", "G", "R", "A", "Y">>, 50712>>,
    <<<<"T", "F", "T", "_", "L", "I", "G", "H", "T", "G", "R", "E", "Y">>, 50712>>,
    <<<<"T", "F", "T", "_", "D", "A", "R", "K", "G", "R", "A", "Y">>, 31727>>,
    <<<<"T", "F", "T", "_", "D", "A", "R", "K", "G", "R", "E", "Y">>, 31727>>,
    <<<<"T", "F", "T", "_", "B", "L", "U", "E">>, 31>>,
    <<<<"T", "F", "T", "_", "G", "R", "E", "E", "N">>, 2016>>,
    <<<<"T", "F", "T", "_", "C", "Y", "A", "N">>, 2047>>,
    <<<<"T", "F", "T", "_", "R", "E", "D">>, 63488>>,
    <<<<"T", "F", "T", "_", "M", "A", "G", "E", "N", "T", "A">>, 63519>>,
    <<<<"T", "F", "T", "_", "Y", "E", "L", "L", "O", "W">>, 65504>>,
    <<<<"T", "F", "T", "_", "W", "H", "I", "T", "E">>, 65535>>,
    <<<<"T", "F", "T", "_", "O", "R", "A", "N", "G", "E">>, 64800>>,
    <<<<"T", "F", "T", "_", "G", "R", "E", "E", "N", "Y", "E", "L", "L", "O", "W">>, 45029>>,
    <<<<"T", "F", "T", "_", "P", "I", "N", "K">>, 63519>>,
    <<<<"T", "F", "T", "_", "B", "R", "O", "W", "N">>, 39520>>,
    <<<<"T", "F", "T", "_", "G", "O", "L", "D">>, 65184>>,
    <<<<"T", "F", "T", "_", "S", "I", "L", "V", "E", "R">>, 50712>>,
    <<<<"T", "F", "T", "_", "S", "K", "Y", "B", "L", "U", "E">>, 34429>>,
    <<<<"T", "F", "T", "_", "V", "I", "O", "L", "E", "T">>, 37212>>,
    <<<<"T", "F", "T", "_", "G", "R", "A", "Y">>, 33808>>,
    <<<<"T", "F", "T", "_", "G", "R", "E", "Y">>, 33808>> >>
HasColor(name) == \E k \in 1..Len(colors) : colors[k][1] = name
ColorValue(name) == colors[CHOOSE k \in 1..Len(colors) : colors[k][1] = name][2]
\* a scaling that cuts the fraction off: Math.floor(k * 255 / max)
FloorScale(k, max) == (k * 255) \div max
\* Math.round(k * 255 / max) for 0 <= k <= max
RoundScale(k, max) == (2 * k * 255 + max) \div (2 * max)
\* rgb565ToRgb(color565): the text "rgb(r, g, b)"
RgbText(c) ==
    <<"r", "g", "b", "(">> \o NatToStr(RoundScale((c \div 2048) % 32, 31)) \o <<",", " ">>
    \o NatToStr(RoundScale((c \div 32) % 64, 63)) \o <<",", " ">>
    \o NatToStr(RoundScale(c % 32, 31)) \o <<")">>
rgb565ToRgb(color565) ==
    RgbText(Low16(IF IsStr(color565) THEN ParseIntHex(color565.s) ELSE color565))
White == <<"#", "F", "F", "F", "F", "F", "F">>
Black == <<"#", "0", "0", "0", "0", "0", "0">>
\* a resolveColor that never looks a name up in this.colors
resolveColorNoTable(colorInput) ==
    IF ~IsStr(colorInput) \/ StartsWith(colorInput.s, <<"0", "x">>)
    THEN rgb565ToRgb(colorInput)
    ELSE White
\* resolveColor(colorInput)
resolveColor(colorInput) ==
    IF IsStr(colorInput) /\ StartsWith(colorInput.s, TFTPrefix) /\ HasColor(colorInput.s)
    THEN rgb565ToRgb(IntV(ColorValue(colorInput.s)))
    ELSE IF ~IsStr(colorInput) \/ StartsWith(colorInput.s, <<"0", "x">>)
         THEN rgb565ToRgb(colorInput)
         ELSE White

(***************************************************************************)
(* The commands.  The parser's fields are a record                         *)
(* [textColor, textSize, cursorX, cursorY]; what a command does to the     *)
(* canvas context is the sequence of its property writes and method calls, *)
(* each [op, args].  A command returns [st, ops, threw, msg]: the fields   *)
(* after it, what it did to the context, and the Error it threw, if any.   *)
(***************************************************************************)
\* this.baseFontSize
baseFontSize == 8
NewParser == [textColor |-> White, textSize |-> IntV(1), cursorX |-> IntV(0), cursorY |-> IntV(0)]
Op(name, args) == [op |-> name, args |-> args]
Done(st, ops) == [st |-> st, ops |-> ops, threw |-> FALSE, msg |-> <<>>]
Throw(st, ops, msg) == [st |-> st, ops |-> ops, threw |-> TRUE, msg |-> msg]
\* the binary - of JavaScript
JsSub(a, b) == NumSub(ToNumber(a), ToNumber(b))
IsFinite(v) == ToNumber(v).t = "num"
\* `${this.baseFontSize * this.textSize}px monospace`
Font(st) == NumToStr(NumMul(IntV(baseFontSize), st.textSize)) \o <<"p", "x", " ", "m", "o", "n", "o", "s", "p", "a", "c", "e">>
\* what drawString and println do to the context
TextOps(st, text, x, y) ==
    << Op("fillStyle", <<Str(st.textColor)>>), Op("font", <<Str(Font(st))>>),
       Op("textBaseline", <<Str(<<"t", "o", "p">>)>>), Op("fillText", <<text, x, y>>) >>
\* ctx.arc(x, y, r, 0, Math.PI * 2) throws an IndexSizeError for a negative radius
ArcThrows(x, y, r) == IsFinite(x) /\ IsFinite(y) /\ IsFinite(r) /\ ToNumber(r).n < 0
ArcMessage(r) == <<"F", "a", "i", "l", "e", "d", " ", "t", "o", " ", "e", "x", "e", "c", "u", "t", "e", " ", "'", "a", "r", "c", "'", " ", "o", "n", " ", "'", "C", "a", "n", "v", "a", "s", "R", "e", "n", "d", "e", "r", "i", "n", "g", "C", "o", "n", "t", "e", "x", "t", "2", "D", "'", ":", " ", "T", "h", "e", " ", "r", "a", "d", "i", "u", "s", " ", "p", "r", "o", "v", "i", "d", "e", "d", " ", "(">> \o NumToStr(ToNumber(r)) \o <<")", " ", "i", "s", " ", "n", "e", "g", "a", "t", "i", "v", "e", ".">>
\* roundRect(x, y, w, h, radius, fill)
roundRect(x, y, w, h, radius, fill) ==
    << Op("beginPath", <<>>),
       Op("moveTo", <<JsAdd(x, radius), y>>),
       Op("lineTo", <<JsSub(JsAdd(x, w), radius), y>>),
       Op("quadraticCurveTo", <<JsAdd(x, w), y, JsAdd(x, w), JsAdd(y, radius)>>),
       Op("lineTo", <<JsAdd(x, w), JsSub(JsAdd(y, h), radius)>>),
       Op("quadraticCurveTo", <<JsAdd(x, w), JsAdd(y, h), JsSub(JsAdd(x, w), radius), JsAdd(y, h)>>),
       Op("lineTo", <<JsAdd(x, radius), JsAdd(y, h)>>),
       Op("quadraticCurveTo", <<x, JsAdd(y, h), x, JsSub(JsAdd(y, h), radius)>>),
       Op("lineTo", <<x, JsAdd(y, radius)>>),
       Op("quadraticCurveTo", <<x, y, JsAdd(x, radius), y>>),
       Op("closePath", <<>>),
       Op(IF fill THEN "fill" ELSE "stroke", <<>>) >>
StrokeStyle(c) == <<Op("strokeStyle", <<Str(resolveColor(c))>>), Op("lineWidth", <<IntV(1)>>)>>
FillStyle(c) == <<Op("fillStyle", <<Str(resolveColor(c))>>)>>
TrianglePath(a) ==
    << Op("beginPath", <<>>), Op("moveTo", <<a[1], a[2]>>), Op("lineTo", <<a[3], a[4]>>),
       Op("lineTo", <<a[5], a[6]>>), Op("closePath", <<>>) >>

\* the names of the 15 commands, as the switch of executeLine spells them
Cmd_fillScreen == <<"f", "i", "l", "l", "S", "c", "r", "e", "e", "n">>
Cmd_fillRect == <<"f", "i", "l", "l", "R", "e", "c", "t">>
Cmd_drawRect == <<"d", "r", "a", "w", "R", "e", "c", "t">>
Cmd_drawLine == <<"d", "r", "a", "w", "L", "i", "n", "e">>
Cmd_drawCircle == <<"d", "r", "a", "w", "C", "i", "r", "c", "l", "e">>
Cmd_fillCircle == <<"f", "i", "l", "l", "C", "i", "r", "c", "l", "e">>
Cmd_drawRoundRect == <<"d", "r", "a", "w", "R", "o", "u", "n", "d", "R", "e", "c", "t">>
Cmd_fillRoundRect == <<"f", "i", "l", "l", "R", "o", "u", "n", "d", "R", "e", "c", "t">>
Cmd_drawTriangle == <<"d", "r", "a", "w", "T", "r", "i", "a", "n", "g", "l", "e">>
Cmd_fillTriangle == <<"f", "i", "l", "l", "T", "r", "i", "a", "n", "g", "l", "e">>
Cmd_drawString == <<"d", "r", "a", "w", "S", "t", "r", "i", "n", "g">>
Cmd_setTextColor == <<"s", "e", "t", "T", "e", "x", "t", "C", "o", "l", "o", "r">>
Cmd_setTextSize == <<"s", "e", "t", "T", "e", "x", "t", "S", "i", "z", "e">>
Cmd_setCursor == <<"s", "e", "t", "C", "u", "r", "s", "o", "r">>
Cmd_println == <<"p", "r", "i", "n", "t", "l", "n">>
\* the message of the Error each command throws when it has too few arguments
Requires(command) ==
    CASE command = Cmd_fillScreen ->
             <<"f", "i", "l", "l", "S", "c", "r", "e", "e", "n", " ", "r", "e", "q", "u", "i", "r", "e", "s", " ", "1", " ", "a", "r", "g", "u", "m", "e", "n", "t", ":", " ", "c", "o", "l", "o", "r">>
      [] command = Cmd_fillRect ->
             <<"f", "i", "l", "l", "R", "e", "c", "t", " ", "r", "e", "q", "u", "i", "r", "e", "s", " ", "5", " ", "a", "r", "g", "u", "m", "e", "n", "t", "s", ":", " ", "x", ",", " ", "y", ",", " ", "w", ",", " ", "h", ",", " ", "c", "o", "l", "o", "r">>
      [] command = Cmd_drawRect ->
             <<"d", "r", "a", "w", "R", "e", "c", "t", " ", "r", "e", "q", "u", "i", "r", "e", "s", " ", "5", " ", "a", "r", "g", "u", "m", "e", "n", "t", "s", ":", " ", "x", ",", " ", "y", ",", " ", "w", ",", " ", "h", ",", " ", "c", "o", "l", "o", "r">>
      [] command = Cmd_drawLine ->
             <<"d", "r", "a", "w", "L", "i", "n", "e", " ", "r", "e", "q", "u", "i", "r", "e", "s", " ", "5", " ", "a", "r", "g", "u", "m", "e", "n", "t", "s", ":", " ", "x", "0", ",", " ", "y", "0", ",", " ", "x", "1", ",", " ", "y", "1", ",", " ", "c", "o", "l", "o", "r">>
      [] command = Cmd_drawCircle ->
             <<"d", "r", "a", "w", "C", "i", "r", "c", "l", "e", " ", "r", "e", "q", "u", "i", "r", "e", "s", " ", "4", " ", "a", "r", "g", "u", "m", "e", "n", "t", "s", ":", " ", "x", ",", " ", "y", ",", " ", "r", ",", " ", "c", "o", "l", "o", "r">>
      [] command = Cmd_fillCircle ->
             <<"f", "i", "l", "l", "C", "i", "r", "c", "l", "e", " ", "r", "e", "q", "u", "i", "r", "e", "s", " ", "4", " ", "a", "r", "g", "u", "m", "e", "n", "t", "s", ":", " ", "x", ",", " ", "y", ",", " ", "r", ",", " ", "c", "o", "l", "o", "r">>
      [] command = Cmd_drawRoundRect ->
             <<"d", "r", "a", "w", "R", "o", "u", "n", "d", "R", "e", "c", "t", " ", "r", "e", "q", "u", "i", "r", "e", "s", " ", "6", " ", "a", "r", "g", "u", "m", "e", "n", "t", "s", ":", " ", "x", ",", " ", "y", ",", " ", "w", ",", " ", "h", ",", " ", "r", ",", " ", "c", "o", "l", "o", "r">>
      [] command = Cmd_fillRoundRect ->
             <<"f", "i", "l", "l", "R", "o", "u", "n", "d", "R", "e", "c", "t", " ", "r", "e", "q", "u", "i", "r", "e", "s", " ", "6", " ", "a", "r", "g", "u", "m", "e", "n", "t", "s", ":", " ", "x", ",", " ", "y", ",", " ", "w", ",", " ", "h", ",", " ", "r", ",", " ", "c", "o", "l", "o", "r">>
      [] command = Cmd_drawTriangle ->
             <<"d", "r", "a", "w", "T", "r", "i", "a", "n", "g", "l", "e", " ", "r", "e", "q", "u", "i", "r", "e", "s", " ", "7", " ", "a", "r", "g", "u", "m", "e", "n", "t", "s", ":", " ", "x", "0", ",", " ", "y", "0", ",", " ", "x", "1", ",", " ", "y", "1", ",", " ", "x", "2", ",", " ", "y", "2", ",", " ", "c", "o", "l", "o", "r">>
      [] command = Cmd_fillTriangle ->
             <<"f", "i", "l", "l", "T", "r", "i", "a", "n", "g", "l", "e", " ", "r", "e", "q", "u", "i", "r", "e", "s", " ", "7", " ", "a", "r", "g", "u", "m", "e", "n", "t", "s", ":", " ", "x", "0", ",", " ", "y", "0", ",", " ", "x", "1", ",", " ", "y", "1", ",", " ", "x", "2", ",", " ", "y", "2", ",", " ", "c", "o", "l", "o", "r">>
      [] command = Cmd_drawString ->
             <<"d", "r", "a", "w", "S", "t", "r", "i", "n", "g", " ", "r", "e", "q", "u", "i", "r", "e", "s", " ", "3", " ", "a", "r", "g", "u", "m", "e", "n", "t", "s", ":", " ", "t", "e", "x", "t", ",", " ", "x", ",", " ", "y">>
      [] command = Cmd_setTextColor ->
             <<"s", "e", "t", "T", "e", "x", "t", "C", "o", "l", "o", "r", " ", "r", "e", "q", "u", "i", "r", "e", "s", " ", "1", " ", "a", "r", "g", "u", "m", "e", "n", "t", ":", " ", "c", "o", "l", "o", "r">>
      [] command = Cmd_setTextSize ->
             <<"s", "e", "t", "T", "e", "x", "t", "S", "i", "z", "e", " ", "r", "e", "q", "u", "i", "r", "e", "s", " ", "1", " ", "a", "r", "g", "u", "m", "e", "n", "t", ":", " ", "s", "i", "z", "e">>
      [] command = Cmd_setCursor ->
             <<"s", "e", "t", "C", "u", "r", "s", "o", "r", " ", "r", "e", "q", "u", "i", "r", "e", "s", " ", "2", " ", "a", "r", "g", "u", "m", "e", "n", "t", "s", ":", " ", "x", ",", " ", "y">>
      [] command = Cmd_println ->
             <<"p", "r", "i", "n", "t", "l", "n", " ", "r", "e", "q", "u", "i", "r", "e", "s", " ", "1", " ", "a", "r", "g", "u", "m", "e", "n", "t", ":", " ", "t", "e", "x", "t">>
fillScreen(st, args, cw, ch) ==
    IF Len(args) < 1 THEN Throw(st, <<>>, Requires(Cmd_fillScreen))
    ELSE Done(st, FillStyle(args[1]) \o <<Op("fillRect", <<IntV(0), IntV(0), IntV(cw), IntV(ch)>>)>>)
\* a fillRect that asks for one argument more than its message says
fillRectSix(st, args) ==
    IF Len(args) < 6 THEN Throw(st, <<>>, Requires(Cmd_fillRect))
    ELSE Done(st, FillStyle(args[5]) \o <<Op("fillRect", SubSeq(args, 1, 4))>>)
fillRect(st, args) ==
    IF Len(args) < 5 THEN Throw(st, <<>>, Requires(Cmd_fillRect))
    ELSE Done(st, FillStyle(args[5]) \o <<Op("fillRect", SubSeq(args, 1, 4))>>)
drawRect(st, args) ==
    IF Len(args) < 5 THEN Throw(st, <<>>, Requires(Cmd_drawRect))
    ELSE Done(st, StrokeStyle(args[5]) \o <<Op("strokeRect", SubSeq(args, 1, 4))>>)
drawLine(st, args) ==
    IF Len(args) < 5 THEN Throw(st, <<>>, Requires(Cmd_drawLine))
    ELSE Done(st, StrokeStyle(args[5])
                  \o << Op("beginPath", <<>>), Op("moveTo", <<args[1], args[2]>>),
                        Op("lineTo", <<args[3], args[4]>>), Op("stroke", <<>>) >>)
\* the arc of drawCircle and fillCircle, after the style is set and the path begun
Circle(st, args, before, finish) ==
    IF ArcThrows(args[1], args[2], args[3]) THEN Throw(st, before, ArcMessage(args[3]))
    ELSE Done(st, before \o <<Op("arc", SubSeq(args, 1, 3)), Op(finish, <<>>)>>)
drawCircle(st, args) ==
    IF Len(args) < 4 THEN Throw(st, <<>>, Requires(Cmd_drawCircle))
    ELSE Circle(st, args, StrokeStyle(args[4]) \o <<Op("beginPath", <<>>)>>, "stroke")
fillCircle(st, args) ==
    IF Len(args) < 4 THEN Throw(st, <<>>, Requires(Cmd_fillCircle))
    ELSE Circle(st, args, FillStyle(args[4]) \o <<Op("beginPath", <<>>)>>, "fill")
drawRoundRect(st, args) ==
    IF Len(args) < 6 THEN Throw(st, <<>>, Requires(Cmd_drawRoundRect))
    ELSE Done(st, StrokeStyle(args[6])
                  \o roundRect(args[1], args[2], args[3], args[4], args[5], FALSE))
fillRoundRect(st, args) ==
    IF Len(args) < 6 THEN Throw(st, <<>>, Requires(Cmd_fillRoundRect))
    ELSE Done(st, FillStyle(args[6])
                  \o roundRect(args[1], args[2], args[3], args[4], args[5], TRUE))
drawTriangle(st, args) ==
    IF Len(args) < 7 THEN Throw(st, <<>>, Requires(Cmd_drawTriangle))
    ELSE Done(st, StrokeStyle(args[7]) \o TrianglePath(args) \o <<Op("stroke", <<>>)>>)
fillTriangle(st, args) ==
    IF Len(args) < 7 THEN Throw(st, <<>>, Requires(Cmd_fillTriangle))
    ELSE Done(st, FillStyle(args[7]) \o TrianglePath(args) \o <<Op("fill", <<>>)>>)
\* a drawString that leaves the cursor where it drew
drawStringMoves(st, args) ==
    IF Len(args) < 3 THEN Throw(st, <<>>, Requires(Cmd_drawString))
    ELSE Done([st EXCEPT !.cursorX = args[2], !.cursorY = args[3]],
              TextOps(st, args[1], args[2], args[3]))
drawString(st, args) ==
    IF Len(args) < 3 THEN Throw(st, <<>>, Requires(Cmd_drawString))
    ELSE Done(st, TextOps(st, args[1], args[2], args[3]))
setTextColor(st, args) ==
    IF Len(args) < 1 THEN Throw(st, <<>>, Requires(Cmd_setTextColor))
    ELSE Done([st EXCEPT !.textColor = resolveColor(args[1])], <<>>)
\* a setTextSize with the upper limit only
setTextSizeNoFloor(st, args) ==
    IF Len(args) < 1 THEN Throw(st, <<>>, Requires(Cmd_setTextSize))
    ELSE Done([st EXCEPT !.textSize = MathMin(IntV(10), args[1])], <<>>)
setTextSize(st, args) ==
    IF Len(args) < 1 THEN Throw(st, <<>>, Requires(Cmd_setTextSize))
    ELSE Done([st EXCEPT !.textSize = MathMax(IntV(1), MathMin(IntV(10), args[1]))], <<>>)
setCursor(st, args) ==
    IF Len(args) < 2 THEN Throw(st, <<>>, Requires(Cmd_setCursor))
    ELSE Done([st EXCEPT !.cursorX = args[1], !.cursorY = args[2]], <<>>)
\* a println that advances the cursor by the font size, without the line spacing
printlnTight(st, args) ==
    IF Len(args) < 1 THEN Throw(st, <<>>, Requires(Cmd_println))
    ELSE Done([st EXCEPT !.cursorY = JsAdd(st.cursorY, NumMul(IntV(baseFontSize), st.textSize))],
              TextOps(st, args[1], st.cursorX, st.cursorY))
\* this.cursorY += this.baseFontSize * this.textSize * 1.5
println(st, args) ==
    IF Len(args) < 1 THEN Throw(st, <<>>, Requires(Cmd_println))
    ELSE Done([st EXCEPT !.cursorY =
                   JsAdd(st.cursorY, NumMul(NumMul(IntV(baseFontSize), st.textSize), Num(3, 2)))],
              TextOps(st, args[1], st.cursorX, st.cursorY))

(***************************************************************************)
(* executeLine and the body of the loop of parse.                          *)
(***************************************************************************)
UnknownCommand == <<"U", "n", "k", "n", "o", "w", "n", " ", "c", "o", "m", "m", "a", "n", "d", ":", " ">>
\* a switch whose default branch ignores the command instead of throwing
ignoreCommand(st, command) == Done(st, <<>>)
\* the default branch of the switch: throw new Error(`Unknown command: ${command}`)
unknownCommand(st, command) == Throw(st, <<>>, UnknownCommand \o command)
\* the switch of executeLine
Dispatch(st, command, args, cw, ch) ==
    CASE command = Cmd_fillScreen -> fillScreen(st, args, cw, ch)
      [] command = Cmd_fillRect -> fillRect(st, args)
      [] command = Cmd_drawRect -> drawRect(st, args)
      [] command = Cmd_drawLine -> drawLine(st, args)
      [] command = Cmd_drawCircle -> drawCircle(st, args)
      [] command = Cmd_fillCircle -> fillCircle(st, args)
      [] command = Cmd_drawRoundRect -> drawRoundRect(st, args)
      [] command = Cmd_fillRoundRect -> fillRoundRect(st, args)
      [] command = Cmd_drawTriangle -> drawTriangle(st, args)
      [] command = Cmd_fillTriangle -> fillTriangle(st, args)
      [] command = Cmd_drawString -> drawString(st, args)
      [] command = Cmd_setTextColor -> setTextColor(st, args)
      [] command = Cmd_setTextSize -> setTextSize(st, args)
      [] command = Cmd_setCursor -> setCursor(st, args)
      [] command = Cmd_println -> println(st, args)
      [] OTHER -> unknownCommand(st, command)
\* line.replace(/;$/, '').trim()
StripSemicolon(line) ==
    Trim(IF line # <<>> /\ line[Len(line)] = ";" THEN SubSeq(line, 1, Len(line) - 1) ELSE line)
\* executeLine(line): [st, ops, threw, msg, hung]; hung when the evaluation of an
\* argument never returns
Inert(st) == [st |-> st, ops |-> <<>>, threw |-> FALSE, msg |-> <<>>, hung |-> FALSE]
Hung(st) == [st |-> st, ops |-> <<>>, threw |-> FALSE, msg |-> <<>>, hung |-> TRUE]
Executed(r) == [st |-> r.st, ops |-> r.ops, threw |-> r.threw, msg |-> r.msg, hung |-> FALSE]
executeCall(st, command, pa, cw, ch) ==
    IF pa.st = "diverge" THEN Hung(st) ELSE Executed(Dispatch(st, command, pa.args, cw, ch))
executeMatch(st, m, cw, ch) ==
    IF ~m.ok THEN Inert(st)
    ELSE executeCall(st, m.command, parseArguments(m.argsString), cw, ch)
executeLine(st, line, cw, ch) == executeMatch(st, MatchCall(StripSemicolon(line)), cw, ch)
\* a test that takes a line beginning with * for a statement
IsSkippedNoStar(line) ==
    \/ line = <<>>
    \/ StartsWith(line, <<"/", "/">>)
    \/ StartsWith(line, <<"/", "*">>)
\* the test of parse that skips a (trimmed) line
IsSkipped(line) ==
    \/ line = <<>>
    \/ StartsWith(line, <<"/", "/">>)
    \/ StartsWith(line, <<"/", "*">>)
    \/ StartsWith(line, <<"*">>)
\* a diagnostic tagged with the 0-based index of the line
DiagnosticZeroBased(i, msg) == <<"L", "i", "n", "e", " ">> \o IntToStr(i) \o <<":", " ">> \o msg
\* `Line ${i + 1}: ${error.message}`, i the 0-based index of the line
Diagnostic(i, msg) == <<"L", "i", "n", "e", " ">> \o IntToStr(i + 1) \o <<":", " ">> \o msg
\* the two replacements and the split at the head of parse
SourceLines(code, width, height) ==
    SplitLines(ReplaceWord(ReplaceWord(code, <<"W", "I", "D", "T", "H">>, IntToStr(width)),
                           <<"H", "E", "I", "G", "H", "T">>, IntToStr(height)))

(***************************************************************************)
(* The source lines the editor may hold.  CoreLines hold every kind of     *)
(* line (declaration, call, failing call, a call whose argument never      *)
(* returns, comment, blank); TextLines the commands of the text state;     *)
(* CommandLines each of the 15 commands with its minimum number of         *)
(* arguments and with one less.                                            *)
(***************************************************************************)
\* int margin = 10;
L_decl == <<"i", "n", "t", " ", "m", "a", "r", "g", "i", "n", " ", "=", " ", "1", "0", ";">>
\* tft.fillRect(margin, margin, WIDTH - margin*2, 50, TFT_BLUE);
L_fillRectMargin == <<"t", "f", "t", ".", "f", "i", "l", "l", "R", "e", "c", "t", "(", "m", "a", "r", "g", "i", "n", ",", " ", "m", "a", "r", "g", "i", "n", ",", " ", "W", "I", "D", "T", "H", " ", "-", " ", "m", "a", "r", "g", "i", "n", "*", "2", ",", " ", "5", "0", ",", " ", "T", "F", "T", "_", "B", "L", "U", "E", ")", ";">>
\* tft.fillRect(0,0,10)
L_fillRectFew == <<"t", "f", "t", ".", "f", "i", "l", "l", "R", "e", "c", "t", "(", "0", ",", "0", ",", "1", "0", ")">>
\* tft.doThing(1,2)
L_doThing == <<"t", "f", "t", ".", "d", "o", "T", "h", "i", "n", "g", "(", "1", ",", "2", ")">>
\* tft.doThing((function(){for(;;){}})())
L_doThingLoop == <<"t", "f", "t", ".", "d", "o", "T", "h", "i", "n", "g", "(", "(", "f", "u", "n", "c", "t", "i", "o", "n", "(", ")", "{", "f", "o", "r", "(", ";", ";", ")", "{", "}", "}", ")", "(", ")", ")">>
\* tft.fillCircle(20, 20, 0 - 5, TFT_RED);
L_circleNeg == <<"t", "f", "t", ".", "f", "i", "l", "l", "C", "i", "r", "c", "l", "e", "(", "2", "0", ",", " ", "2", "0", ",", " ", "0", " ", "-", " ", "5", ",", " ", "T", "F", "T", "_", "R", "E", "D", ")", ";">>
\* tft.fillScreen((function(){for(;;){}})());
L_fillScreenLoop == <<"t", "f", "t", ".", "f", "i", "l", "l", "S", "c", "r", "e", "e", "n", "(", "(", "f", "u", "n", "c", "t", "i", "o", "n", "(", ")", "{", "f", "o", "r", "(", ";", ";", ")", "{", "}", "}", ")", "(", ")", ")", ";">>
\* tft.setTextSize(99);
L_size99 == <<"t", "f", "t", ".", "s", "e", "t", "T", "e", "x", "t", "S", "i", "z", "e", "(", "9", "9", ")", ";">>
\* tft.setTextSize(0)
L_size0 == <<"t", "f", "t", ".", "s", "e", "t", "T", "e", "x", "t", "S", "i", "z", "e", "(", "0", ")">>
\*   tft.setTextSize(5 / 2);
L_sizeHalf == <<" ", " ", "t", "f", "t", ".", "s", "e", "t", "T", "e", "x", "t", "S", "i", "z", "e", "(", "5", " ", "/", " ", "2", ")", ";">>
\* tft.setCursor(WIDTH / 4, 7);
L_cursor == <<"t", "f", "t", ".", "s", "e", "t", "C", "u", "r", "s", "o", "r", "(", "W", "I", "D", "T", "H", " ", "/", " ", "4", ",", " ", "7", ")", ";">>
\* tft.setCursor(3);
L_cursorFew == <<"t", "f", "t", ".", "s", "e", "t", "C", "u", "r", "s", "o", "r", "(", "3", ")", ";">>
\* tft.println("x");
L_println == <<"t", "f", "t", ".", "p", "r", "i", "n", "t", "l", "n", "(", "\"", "x", "\"", ")", ";">>
\* tft.drawString("Hi", 1, 2);
L_drawString == <<"t", "f", "t", ".", "d", "r", "a", "w", "S", "t", "r", "i", "n", "g", "(", "\"", "H", "i", "\"", ",", " ", "1", ",", " ", "2", ")", ";">>
\* tft.setTextColor(TFT_GREEN);
L_color == <<"t", "f", "t", ".", "s", "e", "t", "T", "e", "x", "t", "C", "o", "l", "o", "r", "(", "T", "F", "T", "_", "G", "R", "E", "E", "N", ")", ";">>
\* // tft.fillScreen(TFT_RED)
L_comment == <<"/", "/", " ", "t", "f", "t", ".", "f", "i", "l", "l", "S", "c", "r", "e", "e", "n", "(", "T", "F", "T", "_", "R", "E", "D", ")">>
\* 
L_blank == <<>>
CoreLines == <<L_decl, L_fillRectMargin, L_fillRectFew, L_doThing, L_doThingLoop, L_circleNeg,
               L_fillScreenLoop, L_size0, L_cursor, L_cursorFew, L_println, L_comment, L_blank>>
TextLines == <<L_size99, L_size0, L_sizeHalf, L_cursor, L_println, L_drawString, L_color>>

\* tft.fillScreen(TFT_RED);
K_fillScreen == <<"t", "f", "t", ".", "f", "i", "l", "l", "S", "c", "r", "e", "e", "n", "(", "T", "F", "T", "_", "R", "E", "D", ")", ";">>
\* tft.fillScreen();
K_fillScreenFew == <<"t", "f", "t", ".", "f", "i", "l", "l", "S", "c", "r", "e", "e", "n", "(", ")", ";">>
\* tft.fillRect(0, 0, 10, 20, TFT_BLUE);
K_fillRect == <<"t", "f", "t", ".", "f", "i", "l", "l", "R", "e", "c", "t", "(", "0", ",", " ", "0", ",", " ", "1", "0", ",", " ", "2", "0", ",", " ", "T", "F", "T", "_", "B", "L", "U", "E", ")", ";">>
\* tft.fillRect(0, 0, 10, 20);
K_fillRectFew == <<"t", "f", "t", ".", "f", "i", "l", "l", "R", "e", "c", "t", "(", "0", ",", " ", "0", ",", " ", "1", "0", ",", " ", "2", "0", ")", ";">>
\* tft.drawRect(0, 0, 10, 20, 0x07E0);
K_drawRect == <<"t", "f", "t", ".", "d", "r", "a", "w", "R", "e", "c", "t", "(", "0", ",", " ", "0", ",", " ", "1", "0", ",", " ", "2", "0", ",", " ", "0", "x", "0", "7", "E", "0", ")", ";">>
\* tft.drawRect(0, 0, 10, 20);
K_drawRectFew == <<"t", "f", "t", ".", "d", "r", "a", "w", "R", "e", "c", "t", "(", "0", ",", " ", "0", ",", " ", "1", "0", ",", " ", "2", "0", ")", ";">>
\* tft.drawLine(0, 0, 10, 20, TFT_WHITE);
K_drawLine == <<"t", "f", "t", ".", "d", "r", "a", "w", "L", "i", "n", "e", "(", "0", ",", " ", "0", ",", " ", "1", "0", ",", " ", "2", "0", ",", " ", "T", "F", "T", "_", "W", "H", "I", "T", "E", ")", ";">>
\* tft.drawLine(0, 0, 10, 20);
K_drawLineFew == <<"t", "f", "t", ".", "d", "r", "a", "w", "L", "i", "n", "e", "(", "0", ",", " ", "0", ",", " ", "1", "0", ",", " ", "2", "0", ")", ";">>
\* tft.drawCircle(10, 10, 5, TFT_CYAN);
K_drawCircle == <<"t", "f", "t", ".", "d", "r", "a", "w", "C", "i", "r", "c", "l", "e", "(", "1", "0", ",", " ", "1", "0", ",", " ", "5", ",", " ", "T", "F", "T", "_", "C", "Y", "A", "N", ")", ";">>
\* tft.drawCircle(10, 10, 5);
K_drawCircleFew == <<"t", "f", "t", ".", "d", "r", "a", "w", "C", "i", "r", "c", "l", "e", "(", "1", "0", ",", " ", "1", "0", ",", " ", "5", ")", ";">>
\* tft.fillCircle(10, 10, 5, TFT_RED);
K_fillCircle == <<"t", "f", "t", ".", "f", "i", "l", "l", "C", "i", "r", "c", "l", "e", "(", "1", "0", ",", " ", "1", "0", ",", " ", "5", ",", " ", "T", "F", "T", "_", "R", "E", "D", ")", ";">>
\* tft.fillCircle(10, 10, 5);
K_fillCircleFew == <<"t", "f", "t", ".", "f", "i", "l", "l", "C", "i", "r", "c", "l", "e", "(", "1", "0", ",", " ", "1", "0", ",", " ", "5", ")", ";">>
\* tft.drawRoundRect(0, 0, 30, 20, 4, TFT_GOLD);
K_drawRoundRect == <<"t", "f", "t", ".", "d", "r", "a", "w", "R", "o", "u", "n", "d", "R", "e", "c", "t", "(", "0", ",", " ", "0", ",", " ", "3", "0", ",", " ", "2", "0", ",", " ", "4", ",", " ", "T", "F", "T", "_", "G", "O", "L", "D", ")", ";">>
\* tft.drawRoundRect(0, 0, 30, 20, 4);
K_drawRoundRectFew == <<"t", "f", "t", ".", "d", "r", "a", "w", "R", "o", "u", "n", "d", "R", "e", "c", "t", "(", "0", ",", " ", "0", ",", " ", "3", "0", ",", " ", "2", "0", ",", " ", "4", ")", ";">>
\* tft.fillRoundRect(0, 0, 30, 20, 4, TFT_NAVY);
K_fillRoundRect == <<"t", "f", "t", ".", "f", "i", "l", "l", "R", "o", "u", "n", "d", "R", "e", "c", "t", "(", "0", ",", " ", "0", ",", " ", "3", "0", ",", " ", "2", "0", ",", " ", "4", ",", " ", "T", "F", "T", "_", "N", "A", "V", "Y", ")", ";">>
\* tft.fillRoundRect(0, 0, 30, 20, 4);
K_fillRoundRectFew == <<"t", "f", "t", ".", "f", "i", "l", "l", "R", "o", "u", "n", "d", "R", "e", "c", "t", "(", "0", ",", " ", "0", ",", " ", "3", "0", ",", " ", "2", "0", ",", " ", "4", ")", ";">>
\* tft.drawTriangle(0, 0, 10, 0, 5, 8, TFT_PINK);
K_drawTriangle == <<"t", "f", "t", ".", "d", "r", "a", "w", "T", "r", "i", "a", "n", "g", "l", "e", "(", "0", ",", " ", "0", ",", " ", "1", "0", ",", " ", "0", ",", " ", "5", ",", " ", "8", ",", " ", "T", "F", "T", "_", "P", "I", "N", "K", ")", ";">>
\* tft.drawTriangle(0, 0, 10, 0, 5, 8);
K_drawTriangleFew == <<"t", "f", "t", ".", "d", "r", "a", "w", "T", "r", "i", "a", "n", "g", "l", "e", "(", "0", ",", " ", "0", ",", " ", "1", "0", ",", " ", "0", ",", " ", "5", ",", " ", "8", ")", ";">>
\* tft.fillTriangle(0, 0, 10, 0, 5, 8, TFT_ORANGE);
K_fillTriangle == <<"t", "f", "t", ".", "f", "i", "l", "l", "T", "r", "i", "a", "n", "g", "l", "e", "(", "0", ",", " ", "0", ",", " ", "1", "0", ",", " ", "0", ",", " ", "5", ",", " ", "8", ",", " ", "T", "F", "T", "_", "O", "R", "A", "N", "G", "E", ")", ";">>
\* tft.fillTriangle(0, 0, 10, 0, 5, 8);
K_fillTriangleFew == <<"t", "f", "t", ".", "f", "i", "l", "l", "T", "r", "i", "a", "n", "g", "l", "e", "(", "0", ",", " ", "0", ",", " ", "1", "0", ",", " ", "0", ",", " ", "5", ",", " ", "8", ")", ";">>
\* tft.drawString("a", 4, 6);
K_drawString == <<"t", "f", "t", ".", "d", "r", "a", "w", "S", "t", "r", "i", "n", "g", "(", "\"", "a", "\"", ",", " ", "4", ",", " ", "6", ")", ";">>
\* tft.drawString("a", 4);
K_drawStringFew == <<"t", "f", "t", ".", "d", "r", "a", "w", "S", "t", "r", "i", "n", "g", "(", "\"", "a", "\"", ",", " ", "4", ")", ";">>
\* tft.setTextColor(TFT_YELLOW);
K_setTextColor == <<"t", "f", "t", ".", "s", "e", "t", "T", "e", "x", "t", "C", "o", "l", "o", "r", "(", "T", "F", "T", "_", "Y", "E", "L", "L", "O", "W", ")", ";">>
\* tft.setTextColor();
K_setTextColorFew == <<"t", "f", "t", ".", "s", "e", "t", "T", "e", "x", "t", "C", "o", "l", "o", "r", "(", ")", ";">>
\* tft.setTextSize(3);
K_setTextSize == <<"t", "f", "t", ".", "s", "e", "t", "T", "e", "x", "t", "S", "i", "z", "e", "(", "3", ")", ";">>
\* tft.setTextSize();
K_setTextSizeFew == <<"t", "f", "t", ".", "s", "e", "t", "T", "e", "x", "t", "S", "i", "z", "e", "(", ")", ";">>
\* tft.setCursor(5, 9);
K_setCursor == <<"t", "f", "t", ".", "s", "e", "t", "C", "u", "r", "s", "o", "r", "(", "5", ",", " ", "9", ")", ";">>
\* tft.setCursor(5);
K_setCursorFew == <<"t", "f", "t", ".", "s", "e", "t", "C", "u", "r", "s", "o", "r", "(", "5", ")", ";">>
\* tft.println("ok");
K_println == <<"t", "f", "t", ".", "p", "r", "i", "n", "t", "l", "n", "(", "\"", "o", "k", "\"", ")", ";">>
\* tft.println();
K_printlnFew == <<"t", "f", "t", ".", "p", "r", "i", "n", "t", "l", "n", "(", ")", ";">>
\* tft.fillRect(1, 2, 3, 4, TFT_RED, 99);
K_fillRectMore == <<"t", "f", "t", ".", "f", "i", "l", "l", "R", "e", "c", "t", "(", "1", ",", " ", "2", ",", " ", "3", ",", " ", "4", ",", " ", "T", "F", "T", "_", "R", "E", "D", ",", " ", "9", "9", ")", ";">>
\* tft.drawBox(0, 0, 10, 10, TFT_RED);
K_drawBox == <<"t", "f", "t", ".", "d", "r", "a", "w", "B", "o", "x", "(", "0", ",", " ", "0", ",", " ", "1", "0", ",", " ", "1", "0", ",", " ", "T", "F", "T", "_", "R", "E", "D", ")", ";">>
CommandLines == <<K_fillScreen, K_fillScreenFew, K_fillRect, K_fillRectFew, K_drawRect, K_drawRectFew,
    K_drawLine, K_drawLineFew, K_drawCircle, K_drawCircleFew, K_fillCircle, K_fillCircleFew,
    K_drawRoundRect, K_drawRoundRectFew, K_fillRoundRect, K_fillRoundRectFew, K_drawTriangle, K_drawTriangleFew,
    K_fillTriangle, K_fillTriangleFew, K_drawString, K_drawStringFew, K_setTextColor, K_setTextColorFew,
    K_setTextSize, K_setTextSizeFew, K_setCursor, K_setCursorFew, K_println, K_printlnFew,
    K_fillRectMore, K_drawBox>>

\* the lines of suite "grammar": lines that are no statement, lines that hold a
\* call after other text, calls followed by more text, and two setters
\*    
G_blank == <<" ", " ", " ">>
\* // tft.fillScreen(TFT_RED);
G_lineComment == <<"/", "/", " ", "t", "f", "t", ".", "f", "i", "l", "l", "S", "c", "r", "e", "e", "n", "(", "T", "F", "T", "_", "R", "E", "D", ")", ";">>
\* /* tft.fillScreen(TFT_RED); */
G_blockOpen == <<"/", "*", " ", "t", "f", "t", ".", "f", "i", "l", "l", "S", "c", "r", "e", "e", "n", "(", "T", "F", "T", "_", "R", "E", "D", ")", ";", " ", "*", "/">>
\*  * tft.fillScreen(TFT_RED);
G_blockCont == <<" ", "*", " ", "t", "f", "t", ".", "f", "i", "l", "l", "S", "c", "r", "e", "e", "n", "(", "T", "F", "T", "_", "R", "E", "D", ")", ";">>
\* }
G_brace == <<"}">>
\* fillScreen(TFT_RED);
G_noReceiver == <<"f", "i", "l", "l", "S", "c", "r", "e", "e", "n", "(", "T", "F", "T", "_", "R", "E", "D", ")", ";">>
\* tft.fillScreen(TFT_RED
G_unclosed == <<"t", "f", "t", ".", "f", "i", "l", "l", "S", "c", "r", "e", "e", "n", "(", "T", "F", "T", "_", "R", "E", "D">>
\* tft.setCursor(3, 4);
G_setCursor == <<"t", "f", "t", ".", "s", "e", "t", "C", "u", "r", "s", "o", "r", "(", "3", ",", " ", "4", ")", ";">>
\* tft.setTextSize(2);
G_setSize == <<"t", "f", "t", ".", "s", "e", "t", "T", "e", "x", "t", "S", "i", "z", "e", "(", "2", ")", ";">>
\* xtft.fillScreen(TFT_RED)
G_prefixed == <<"x", "t", "f", "t", ".", "f", "i", "l", "l", "S", "c", "r", "e", "e", "n", "(", "T", "F", "T", "_", "R", "E", "D", ")">>
\* if (x) tft.fillScreen(TFT_RED)
G_conditional == <<"i", "f", " ", "(", "x", ")", " ", "t", "f", "t", ".", "f", "i", "l", "l", "S", "c", "r", "e", "e", "n", "(", "T", "F", "T", "_", "R", "E", "D", ")">>
\* tft.fillScreen(TFT_RED); // (note)
G_commented == <<"t", "f", "t", ".", "f", "i", "l", "l", "S", "c", "r", "e", "e", "n", "(", "T", "F", "T", "_", "R", "E", "D", ")", ";", " ", "/", "/", " ", "(", "n", "o", "t", "e", ")">>
\* tft.fillScreen(TFT_RED); tft.fillScreen(TFT_BLUE)
G_second == <<"t", "f", "t", ".", "f", "i", "l", "l", "S", "c", "r", "e", "e", "n", "(", "T", "F", "T", "_", "R", "E", "D", ")", ";", " ", "t", "f", "t", ".", "f", "i", "l", "l", "S", "c", "r", "e", "e", "n", "(", "T", "F", "T", "_", "B", "L", "U", "E", ")">>
\* tft.fillScreen(TFT_RED); // note
G_plainComment == <<"t", "f", "t", ".", "f", "i", "l", "l", "S", "c", "r", "e", "e", "n", "(", "T", "F", "T", "_", "R", "E", "D", ")", ";", " ", "/", "/", " ", "n", "o", "t", "e">>
GrammarLines == <<G_blank, G_lineComment, G_blockOpen, G_blockCont, G_brace, G_noReceiver, G_unclosed,
                  G_setCursor, G_setSize, G_prefixed, G_conditional, G_commented, G_second,
                  G_plainComment>>

\* the lines of suite "expressions": unquoted arguments that are numbers, sums and
\* products, words, and texts that only begin like a number or an expression
\* tft.println(12abc);
E_prefix == <<"t", "f", "t", ".", "p", "r", "i", "n", "t", "l", "n", "(", "1", "2", "a", "b", "c", ")", ";">>
\* tft.setCursor(100 - x*2, 1);
E_undeclared == <<"t", "f", "t", ".", "s", "e", "t", "C", "u", "r", "s", "o", "r", "(", "1", "0", "0", " ", "-", " ", "x", "*", "2", ",", " ", "1", ")", ";">>
\* tft.setCursor(WIDTH - 10 * 2, (WIDTH - 40) * 2);
E_precedence == <<"t", "f", "t", ".", "s", "e", "t", "C", "u", "r", "s", "o", "r", "(", "W", "I", "D", "T", "H", " ", "-", " ", "1", "0", " ", "*", " ", "2", ",", " ", "(", "W", "I", "D", "T", "H", " ", "-", " ", "4", "0", ")", " ", "*", " ", "2", ")", ";">>
\* tft.setCursor(10 - 4 - 3, 2 * 3 + 4);
E_leftToRight == <<"t", "f", "t", ".", "s", "e", "t", "C", "u", "r", "s", "o", "r", "(", "1", "0", " ", "-", " ", "4", " ", "-", " ", "3", ",", " ", "2", " ", "*", " ", "3", " ", "+", " ", "4", ")", ";">>
\* tft.setCursor(2 * (3 + 4) * 5, 100 - (20 - 5));
E_nested == <<"t", "f", "t", ".", "s", "e", "t", "C", "u", "r", "s", "o", "r", "(", "2", " ", "*", " ", "(", "3", " ", "+", " ", "4", ")", " ", "*", " ", "5", ",", " ", "1", "0", "0", " ", "-", " ", "(", "2", "0", " ", "-", " ", "5", ")", ")", ";">>
\* tft.setCursor(10 +* 2, 1);
E_malformed == <<"t", "f", "t", ".", "s", "e", "t", "C", "u", "r", "s", "o", "r", "(", "1", "0", " ", "+", "*", " ", "2", ",", " ", "1", ")", ";">>
\* tft.setCursor(5 +, 1);
E_dangling == <<"t", "f", "t", ".", "s", "e", "t", "C", "u", "r", "s", "o", "r", "(", "5", " ", "+", ",", " ", "1", ")", ";">>
\* tft.setCursor(7, 12.5);
E_plain == <<"t", "f", "t", ".", "s", "e", "t", "C", "u", "r", "s", "o", "r", "(", "7", ",", " ", "1", "2", ".", "5", ")", ";">>
\* tft.println(abc);
E_word == <<"t", "f", "t", ".", "p", "r", "i", "n", "t", "l", "n", "(", "a", "b", "c", ")", ";">>
\* tft.println(ok);
E_println == <<"t", "f", "t", ".", "p", "r", "i", "n", "t", "l", "n", "(", "o", "k", ")", ";">>
ExpressionLines == <<E_prefix, E_undeclared, E_precedence, E_leftToRight, E_nested, E_malformed,
                     E_dangling, E_plain, E_word, E_println>>

\* the lines of suite "arguments": color arguments that resolve to nothing, quoted
\* texts, a call of a host function, an empty text, a trailing comma, a text size
\* that is no number
\* tft.fillScreen(0xZZ);
A_hexZZ == <<"t", "f", "t", ".", "f", "i", "l", "l", "S", "c", "r", "e", "e", "n", "(", "0", "x", "Z", "Z", ")", ";">>
\* tft.fillScreen(TFT_NOPE);
A_noName == <<"t", "f", "t", ".", "f", "i", "l", "l", "S", "c", "r", "e", "e", "n", "(", "T", "F", "T", "_", "N", "O", "P", "E", ")", ";">>
\* tft.fillScreen(banana);
A_banana == <<"t", "f", "t", ".", "f", "i", "l", "l", "S", "c", "r", "e", "e", "n", "(", "b", "a", "n", "a", "n", "a", ")", ";">>
\* tft.drawString("25.5 C", 20, 75);
A_temp == <<"t", "f", "t", ".", "d", "r", "a", "w", "S", "t", "r", "i", "n", "g", "(", "\"", "2", "5", ".", "5", " ", "C", "\"", ",", " ", "2", "0", ",", " ", "7", "5", ")", ";">>
\* tft.println(" 1+2 ");
A_sum == <<"t", "f", "t", ".", "p", "r", "i", "n", "t", "l", "n", "(", "\"", " ", "1", "+", "2", " ", "\"", ")", ";">>
\* tft.setCursor(Math.abs(0 - 7), 1);
A_abs == <<"t", "f", "t", ".", "s", "e", "t", "C", "u", "r", "s", "o", "r", "(", "M", "a", "t", "h", ".", "a", "b", "s", "(", "0", " ", "-", " ", "7", ")", ",", " ", "1", ")", ";">>
\* tft.println("");
A_emptyText == <<"t", "f", "t", ".", "p", "r", "i", "n", "t", "l", "n", "(", "\"", "\"", ")", ";">>
\* tft.setCursor(1, 2, );
A_trailing == <<"t", "f", "t", ".", "s", "e", "t", "C", "u", "r", "s", "o", "r", "(", "1", ",", " ", "2", ",", " ", ")", ";">>
\* tft.setTextSize(TFT_RED);
A_sizeName == <<"t", "f", "t", ".", "s", "e", "t", "T", "e", "x", "t", "S", "i", "z", "e", "(", "T", "F", "T", "_", "R", "E", "D", ")", ";">>
ArgumentLines == <<A_hexZZ, A_noName, A_banana, A_temp, A_sum, A_abs, A_emptyText, A_trailing,
                   A_sizeName>>

\* the lines of suite "dimensions": the dimension symbols as arguments, inside a
\* string literal, inside longer identifiers and inside a comment
\* tft.fillRect(0,0,WIDTH,HEIGHT,TFT_RED)
D_fillRect == <<"t", "f", "t", ".", "f", "i", "l", "l", "R", "e", "c", "t", "(", "0", ",", "0", ",", "W", "I", "D", "T", "H", ",", "H", "E", "I", "G", "H", "T", ",", "T", "F", "T", "_", "R", "E", "D", ")">>
\* tft.drawString("w=WIDTH", WIDTHS, MY_WIDTH); // HEIGHT
D_words == <<"t", "f", "t", ".", "d", "r", "a", "w", "S", "t", "r", "i", "n", "g", "(", "\"", "w", "=", "W", "I", "D", "T", "H", "\"", ",", " ", "W", "I", "D", "T", "H", "S", ",", " ", "M", "Y", "_", "W", "I", "D", "T", "H", ")", ";", " ", "/", "/", " ", "H", "E", "I", "G", "H", "T">>
\* // WIDTH x HEIGHT, not HEIGHTS
D_comment == <<"/", "/", " ", "W", "I", "D", "T", "H", " ", "x", " ", "H", "E", "I", "G", "H", "T", ",", " ", "n", "o", "t", " ", "H", "E", "I", "G", "H", "T", "S">>
DimensionLines == <<D_fillRect, D_words, D_comment>>

\* in a behaviour the editor holds up to MaxLines lines of CoreLines (suite "core"),
\* up to MaxTextLines lines of TextLines (suite "text") or up to MaxCommandLines
\* lines of CommandLines (suite "commands"), or up to MaxDimensionLines lines of
\* DimensionLines (suite "dimensions"), or up to MaxArgumentLines lines of
\* ArgumentLines (suite "arguments"), or up to MaxGrammarLines lines of GrammarLines
\* (suite "grammar"), or up to MaxExpressionLines lines of ExpressionLines (suite
\* "expressions", on the 240 x 320 canvas), or up to MaxLiveLines lines of LiveLines
\* (suite "live")
MaxTextLines == 4
MaxCommandLines == 2
MaxDimensionLines == 2
MaxArgumentLines == 2
MaxGrammarLines == 2
MaxExpressionLines == 2
MaxLiveLines == 2
\* the lines of suite "live"
LiveLines == <<K_fillScreen, L_println>>
Suites == {"core", "text", "commands", "dimensions", "arguments", "grammar", "expressions", "live"}
SetOf(seq) == {seq[k] : k \in 1..Len(seq)}
Catalog(su) == IF su = "core" THEN SetOf(CoreLines)
               ELSE IF su = "text" THEN SetOf(TextLines)
               ELSE IF su = "commands" THEN SetOf(CommandLines)
               ELSE IF su = "dimensions" THEN SetOf(DimensionLines)
               ELSE IF su = "arguments" THEN SetOf(ArgumentLines)
               ELSE IF su = "grammar" THEN SetOf(GrammarLines)
               ELSE IF su = "expressions" THEN SetOf(ExpressionLines)
               ELSE SetOf(LiveLines)
LineLimit(su) == IF su = "core" THEN MaxLines
                 ELSE IF su = "text" THEN MaxTextLines
                 ELSE IF su = "commands" THEN MaxCommandLines
                 ELSE IF su = "dimensions" THEN MaxDimensionLines
                 ELSE IF su = "arguments" THEN MaxArgumentLines
                 ELSE IF su = "grammar" THEN MaxGrammarLines
                 ELSE IF su = "expressions" THEN MaxExpressionLines
                 ELSE MaxLiveLines
\* the sizes the canvas may take: both in suite "dimensions", the first elsewhere
Dims == {<<100, 50>>, <<240, 320>>}
SuiteDims(su) == IF su = "dimensions" THEN Dims
                 ELSE IF su = "expressions" THEN {<<240, 320>>}
                 ELSE {<<100, 50>>}

(***************************************************************************)
(* The state: the editor's text, the canvas size, the parser instance's    *)
(* fields, and the position of the one render() / parse() call in flight.  *)
(***************************************************************************)
VARIABLES
    suite,      \* which lines the editor draws from in this behaviour
    code,       \* codeEditor.value
    canvasW,    \* canvas.width
    canvasH,    \* canvas.height
    parser,     \* this.parser: [textColor, textSize, cursorX, cursorY]
    pc,         \* "idle", "running" (inside parse), "hung" (parse never returns) or "threw"
    lines,      \* parse: const lines
    i,          \* parse: the loop index (0-based)
    errors,     \* parse: const errors
    entry,      \* the parser's fields when the parse in flight (or the last) began
    lineLog,    \* per processed line of that parse: [kind, ops, st, msg]
    runLog,     \* per returned parse: [w, h, entry, log, errors]
    colorInput, \* the argument of a call of rgb565ToRgb or resolveColor on its own
    colorStep,  \* "input" before that call, then the name of the method called
    displayColor, \* what the call returned
    widthInput, \* widthInput.value
    heightInput, \* heightInput.value
    gridW,      \* gridCanvas.width
    gridH,      \* gridCanvas.height
    stored,     \* localStorage item tft_simulator_code: [saved, code, width, height]
    exprInput,  \* an argument on its own: [a, o1, b, o2, c, form], operands and operators
    exprText,   \* its text, then its text after the replacement of the dimension symbols
    exprStep,   \* "input", "replaced" or "parsed"
    exprValue,  \* what parseValue returned for it
    livePreviewEnabled, \* this.livePreviewEnabled
    livePreviewTimeout, \* this.livePreviewTimeout: the id of a timer, 0 for null
    timers,     \* the ids of the timers that are set and have neither fired nor been cleared
    timerCount, \* how many timers have been set
    silentLog,  \* per render(true): [enabled, editor, source]
    lastEdit    \* [live, renders]: whether live preview was enabled at the last input
                \* event, and the silent renders since
simVars == <<suite, code, canvasW, canvasH, parser, pc, lines, i, errors, entry, lineLog, runLog>>
colorVars == <<colorInput, colorStep, displayColor>>
uiVars == <<widthInput, heightInput, gridW, gridH, stored>>
exprVars == <<exprInput, exprText, exprStep, exprValue>>
liveVars == <<livePreviewEnabled, livePreviewTimeout, timers, timerCount, silentLog, lastEdit>>
vars == <<simVars, colorVars, uiVars, exprVars, liveVars>>

\* no argument on its own, and no value of it
NoExpression == [a |-> <<>>, o1 |-> "", b |-> <<>>, o2 |-> "", c |-> <<>>, form |-> "none"]
NoValue == [st |-> "none", v |-> NaN]
\* no input event yet
NoEdit == [live |-> FALSE, renders |-> 0]
\* localStorage without the item
NoStore == [saved |-> FALSE, code |-> <<>>, width |-> <<>>, height |-> <<>>]

Init ==
    /\ suite \in Suites
    /\ code = <<>>
    /\ \E d \in SuiteDims(suite) : canvasW = d[1] /\ canvasH = d[2]
    /\ parser = NewParser
    /\ pc = "idle"
    /\ lines = <<>>
    /\ i = 0
    /\ errors = <<>>
    /\ entry = NewParser
    /\ lineLog = <<>>
    /\ runLog = <<>>
    /\ colorInput = IntV(0)
    /\ colorStep = "input"
    /\ displayColor = <<>>
    /\ widthInput = IntToStr(canvasW)
    /\ heightInput = IntToStr(canvasH)
    /\ gridW = canvasW
    /\ gridH = canvasH
    /\ stored = NoStore
    /\ exprInput = NoExpression
    /\ exprText = <<>>
    /\ exprStep = "input"
    /\ exprValue = NoValue
    /\ livePreviewEnabled = FALSE
    /\ livePreviewTimeout = 0
    /\ timers = {}
    /\ timerCount = 0
    /\ silentLog = <<>>
    /\ lastEdit = NoEdit

\* the user adds a line at the end of the editor (before the first render)
TypeLine(l) ==
    /\ pc = "idle"
    /\ runLog = <<>>
    /\ code = <<>> \/ Len(SplitLines(code)) < LineLimit(suite)
    /\ code' = IF code = <<>> THEN l ELSE code \o <<"\n">> \o l
    /\ UNCHANGED <<suite, canvasW, canvasH, parser, pc, lines, i, errors, entry, lineLog, runLog>>
    /\ UNCHANGED <<colorVars, exprVars, liveVars, exprVars, liveVars>>
    /\ UNCHANGED uiVars

\* the user enters the valid dimensions w and h and updateCanvasSize() runs: the
\* canvas and the grid canvas are resized, the canvas is cleared and a new TFTParser
\* replaces the old one
UpdateCanvasSize(w, h) ==
    /\ pc = "idle"
    /\ ~(w < 1 \/ h < 1 \/ w > 1920 \/ h > 1920)
    /\ widthInput' = IntToStr(w)
    /\ heightInput' = IntToStr(h)
    /\ canvasW' = w
    /\ canvasH' = h
    /\ gridW' = w
    /\ gridH' = h
    /\ parser' = NewParser
    /\ lineLog' = <<>>
    /\ UNCHANGED <<suite, code, pc, lines, i, errors, entry, runLog, stored>>
    /\ UNCHANGED <<colorVars, exprVars, liveVars, exprVars, liveVars>>

\* render(): the canvas is cleared and this.parser.parse(code, width, height)
\* begins: the dimension symbols are replaced and the text is split
Render ==
    /\ pc = "idle"
    /\ Len(runLog) < MaxRuns
    /\ pc' = "running"
    /\ lines' = SourceLines(code, canvasW, canvasH)
    /\ i' = 0
    /\ errors' = <<>>
    /\ entry' = parser
    /\ lineLog' = <<>>
    /\ UNCHANGED <<suite, code, canvasW, canvasH, parser, runLog>>
    /\ UNCHANGED <<colorVars, exprVars, liveVars, exprVars, liveVars>>
    /\ UNCHANGED uiVars

\* a loop without the try/catch: the Error of the line leaves parse
Rethrow(errs, k, msg) == [errors |-> errs, escaped |-> TRUE]
\* what the catch clause of parse does with the Error a line threw
Catch(errs, k, msg) == [errors |-> Append(errs, Diagnostic(k, msg)), escaped |-> FALSE]

\* one iteration of the loop of parse, for a line that is not skipped: r is what
\* executeLine did, c what the catch clause made of the Error (if one was thrown)
Iterate(r, c) ==
    IF r.hung
    THEN /\ pc' = "hung"
         /\ UNCHANGED <<parser, errors, i, lineLog>>
    ELSE /\ parser' = r.st
         /\ lineLog' = Append(lineLog, [kind |-> IF r.threw THEN "failed" ELSE "executed",
                                        ops |-> r.ops, st |-> r.st, msg |-> r.msg])
         /\ errors' = IF r.threw THEN c.errors ELSE errors
         /\ pc' = IF r.threw /\ c.escaped THEN "threw" ELSE pc
         /\ i' = i + 1
IterateOn(r) == Iterate(r, Catch(errors, i, r.msg))
ParseLine ==
    /\ pc = "running"
    /\ i < Len(lines)
    /\ IF IsSkipped(Trim(lines[i + 1]))
       THEN /\ lineLog' = Append(lineLog, [kind |-> "skipped", ops |-> <<>>, st |-> parser, msg |-> <<>>])
            /\ i' = i + 1
            /\ UNCHANGED <<parser, errors, pc>>
       ELSE IterateOn(executeLine(parser, Trim(lines[i + 1]), canvasW, canvasH))
    /\ UNCHANGED <<suite, code, canvasW, canvasH, lines, entry, runLog>>
    /\ UNCHANGED <<colorVars, exprVars, liveVars, exprVars, liveVars>>
    /\ UNCHANGED uiVars

\* parse returns errors to render
ParseReturn ==
    /\ pc = "running"
    /\ i = Len(lines)
    /\ pc' = "idle"
    /\ runLog' = Append(runLog, [w |-> canvasW, h |-> canvasH, entry |-> entry,
                                 log |-> lineLog, errors |-> errors])
    /\ UNCHANGED <<suite, code, canvasW, canvasH, parser, lines, i, errors, entry, lineLog>>
    /\ UNCHANGED <<colorVars, exprVars, liveVars, exprVars, liveVars>>
    /\ UNCHANGED uiVars

Next ==
    \/ \E l \in Catalog(suite) : TypeLine(l)
    \/ \E d \in SuiteDims(suite) : UpdateCanvasSize(d[1], d[2])
    \/ Render
    \/ ParseLine
    \/ ParseReturn

Spec == Init /\ [][Next]_vars
\* the same machine with the editor drawing from GrammarLines
GrammarInit == Init /\ suite = "grammar"
GrammarSpec == GrammarInit /\ [][Next]_vars
\* the same machine with the editor drawing from ExpressionLines
ExpressionInit == Init /\ suite = "expressions"
ExpressionSpec == ExpressionInit /\ [][Next]_vars

(***************************************************************************)
(* The color methods on their own: one call of rgb565ToRgb or of           *)
(* resolveColor on a parser as the constructor leaves it.  The input is    *)
(* any number 0 .. MaxColor565, any name of this.colors, or one of a few   *)
(* inputs that are neither.                                                *)
(***************************************************************************)
MaxColor565 == 65535
\* TFT_NOPE, banana, 0xZZ (as parseValue hands it over: NaN), "0x07E0"
OtherColorInputs ==
    {Str(<<"T", "F", "T", "_", "N", "O", "P", "E">>), Str(<<"b", "a", "n", "a", "n", "a">>), NaN, Str(<<"0", "x", "0", "7", "E", "0">>)}
ColorInputs ==
    {IntV(c) : c \in 0..MaxColor565} \cup {Str(colors[k][1]) : k \in 1..Len(colors)}
        \cup OtherColorInputs
ColorInit ==
    /\ suite = "core"
    /\ code = <<>>
    /\ canvasW = 100
    /\ canvasH = 50
    /\ parser = NewParser
    /\ pc = "idle"
    /\ lines = <<>>
    /\ i = 0
    /\ errors = <<>>
    /\ entry = NewParser
    /\ lineLog = <<>>
    /\ runLog = <<>>
    /\ colorInput \in ColorInputs
    /\ colorStep = "input"
    /\ displayColor = <<>>
    /\ widthInput = IntToStr(canvasW)
    /\ heightInput = IntToStr(canvasH)
    /\ gridW = canvasW
    /\ gridH = canvasH
    /\ stored = NoStore
    /\ exprInput = NoExpression
    /\ exprText = <<>>
    /\ exprStep = "input"
    /\ exprValue = NoValue
    /\ livePreviewEnabled = FALSE
    /\ livePreviewTimeout = 0
    /\ timers = {}
    /\ timerCount = 0
    /\ silentLog = <<>>
    /\ lastEdit = NoEdit
\* this.parser.rgb565ToRgb(colorInput)
Rgb565ToRgb ==
    /\ colorStep = "input"
    /\ colorStep' = "rgb565ToRgb"
    /\ displayColor' = rgb565ToRgb(colorInput)
    /\ UNCHANGED <<simVars, colorInput, uiVars, exprVars, liveVars>>
\* this.parser.resolveColor(colorInput)
ResolveColor ==
    /\ colorStep = "input"
    /\ colorStep' = "resolveColor"
    /\ displayColor' = resolveColor(colorInput)
    /\ UNCHANGED <<simVars, colorInput, uiVars, exprVars, liveVars>>
ColorNext ==
    \/ Rgb565ToRgb
    \/ ResolveColor
ColorSpec == ColorInit /\ [][ColorNext]_vars

(***************************************************************************)
(* One argument on its own: the text of an arithmetic expression over      *)
(* WIDTH, HEIGHT and integer literals goes through the replacement at the   *)
(* head of parse and then through parseValue, on the 240 x 320 canvas.     *)
(***************************************************************************)
Operands == {<<"W", "I", "D", "T", "H">>, <<"H", "E", "I", "G", "H", "T">>, <<"1", "0">>, <<"2">>,
             <<"4", "0">>, <<"7">>}
Operators == {"+", "-", "*"}
\* a op b op c, (a op b) op c and a op (b op c)
Forms == {"flat", "left", "right"}
ExpressionText(e) ==
    IF e.form = "left"
    THEN <<"(">> \o e.a \o <<" ", e.o1, " ">> \o e.b \o <<")", " ", e.o2, " ">> \o e.c
    ELSE IF e.form = "right"
    THEN e.a \o <<" ", e.o1, " ", "(">> \o e.b \o <<" ", e.o2, " ">> \o e.c \o <<")">>
    ELSE e.a \o <<" ", e.o1, " ">> \o e.b \o <<" ", e.o2, " ">> \o e.c
ArithInit ==
    /\ suite = "expressions"
    /\ code = <<>>
    /\ canvasW = 240
    /\ canvasH = 320
    /\ parser = NewParser
    /\ pc = "idle"
    /\ lines = <<>>
    /\ i = 0
    /\ errors = <<>>
    /\ entry = NewParser
    /\ lineLog = <<>>
    /\ runLog = <<>>
    /\ colorInput = IntV(0)
    /\ colorStep = "input"
    /\ displayColor = <<>>
    /\ widthInput = IntToStr(canvasW)
    /\ heightInput = IntToStr(canvasH)
    /\ gridW = canvasW
    /\ gridH = canvasH
    /\ stored = NoStore
    /\ exprInput \in [a : Operands, o1 : Operators, b : Operands, o2 : Operators, c : Operands,
                      form : Forms]
    /\ exprText = ExpressionText(exprInput)
    /\ exprStep = "input"
    /\ exprValue = NoValue
    /\ livePreviewEnabled = FALSE
    /\ livePreviewTimeout = 0
    /\ timers = {}
    /\ timerCount = 0
    /\ silentLog = <<>>
    /\ lastEdit = NoEdit
\* code.replace(/\bWIDTH\b/g, width) and code.replace(/\bHEIGHT\b/g, height)
ReplaceDimensions ==
    /\ exprStep = "input"
    /\ exprStep' = "replaced"
    /\ exprText' = SourceLines(exprText, canvasW, canvasH)[1]
    /\ UNCHANGED <<simVars, colorVars, uiVars, exprInput, exprValue, liveVars>>
\* this.parseValue(arg)
ParseValue ==
    /\ exprStep = "replaced"
    /\ exprStep' = "parsed"
    /\ exprValue' = parseValue(exprText)
    /\ UNCHANGED <<simVars, colorVars, uiVars, exprInput, exprText, liveVars>>
ArithNext ==
    \/ ReplaceDimensions
    \/ ParseValue
ArithSpec == ArithInit /\ [][ArithNext]_vars

(***************************************************************************)
(* The page: the editor, the two dimension inputs, the canvases and        *)
(* localStorage, with no render in flight.  The page's HTML is not among   *)
(* the sources: the page is taken to open with an empty editor and with    *)
(* 240 and 320 in the inputs.                                              *)
(***************************************************************************)
MaxDimension == 1920
DefaultWidth == <<"2", "4", "0">>
DefaultHeight == <<"3", "2", "0">>
\* what the user may type into the two inputs
DimensionEntries ==
    { <<<<"1", "0", "0">>, <<"5", "0">>>>, <<<<>>, <<"5", "0">>>>, <<<<"a", "b", "c">>, <<"a", "b", "c">>>>,
      <<<<"1", "9", "2", "1">>, <<"5", "0">>>>, <<<<"1", "0", "0">>, <<"0">>>> }
\* width < 1 || height < 1 || width > 1920 || height > 1920: each comparison is false
\* for NaN
Below(v, n) == v.t = "num" /\ NumLess(v, IntV(n))
Above(v, n) == v.t = "num" /\ NumLess(IntV(n), v)
InvalidDimensions(w, h) ==
    Below(w, 1) \/ Below(h, 1) \/ Above(w, MaxDimension) \/ Above(h, MaxDimension)
\* canvas.width = v: NaN becomes 0
CanvasLength(v) == IF v.t = "num" THEN v.n ELSE 0
\* the size of the canvas after updateCanvasSize() read w and h, from the size cw, ch
SizeAfter(w, h, cw, ch) ==
    IF InvalidDimensions(w, h) THEN <<cw, ch>> ELSE <<CanvasLength(w), CanvasLength(h)>>

UiInit ==
    /\ Init
    /\ suite = "dimensions"
    /\ widthInput = DefaultWidth
    /\ heightInput = DefaultHeight
\* the user edits a dimension input
EnterDimensions(wt, ht) ==
    /\ pc = "idle"
    /\ widthInput' = wt
    /\ heightInput' = ht
    /\ UNCHANGED <<simVars, colorVars, exprVars, liveVars, gridW, gridH, stored>>
\* the size sz is applied to both canvases
Resized(sz) ==
    /\ canvasW' = sz[1]
    /\ canvasH' = sz[2]
    /\ gridW' = sz[1]
    /\ gridH' = sz[2]
\* updateCanvasSize(), on the Apply button
ApplyDimensions ==
    /\ pc = "idle"
    /\ Resized(SizeAfter(ParseInt(widthInput), ParseInt(heightInput), canvasW, canvasH))
    /\ parser' = IF InvalidDimensions(ParseInt(widthInput), ParseInt(heightInput))
                 THEN parser ELSE NewParser
    /\ UNCHANGED <<suite, code, pc, lines, i, errors, entry, lineLog, runLog>>
    /\ UNCHANGED <<colorVars, exprVars, liveVars, widthInput, heightInput, stored>>
\* the Clear button, confirmed
ClearCode ==
    /\ pc = "idle"
    /\ code # <<>>
    /\ code' = <<>>
    /\ UNCHANGED <<suite, canvasW, canvasH, parser, pc, lines, i, errors, entry, lineLog, runLog>>
    /\ UNCHANGED <<colorVars, exprVars, liveVars, uiVars>>
\* saveCode(), on the Save button
SaveCode ==
    /\ pc = "idle"
    /\ stored' = [saved |-> TRUE, code |-> code, width |-> widthInput, height |-> heightInput]
    /\ UNCHANGED <<simVars, colorVars, exprVars, liveVars, widthInput, heightInput, gridW, gridH>>
\* the page is opened again: the constructor and init(), which ends with
\* loadFromLocalStorage()
RestoresSize == stored.saved /\ stored.width # <<>> /\ stored.height # <<>>
Reopen ==
    /\ pc = "idle"
    /\ code' = IF stored.saved /\ stored.code # <<>> THEN stored.code ELSE <<>>
    /\ widthInput' = IF RestoresSize THEN stored.width ELSE DefaultWidth
    /\ heightInput' = IF RestoresSize THEN stored.height ELSE DefaultHeight
    /\ Resized(IF RestoresSize
               THEN SizeAfter(ParseInt(stored.width), ParseInt(stored.height),
                              CanvasLength(ParseInt(DefaultWidth)),
                              CanvasLength(ParseInt(DefaultHeight)))
               ELSE <<CanvasLength(ParseInt(DefaultWidth)), CanvasLength(ParseInt(DefaultHeight))>>)
    /\ parser' = NewParser
    /\ UNCHANGED <<suite, pc, lines, i, errors, entry, lineLog, runLog, stored>>
    /\ UNCHANGED <<colorVars, exprVars, liveVars, exprVars, liveVars>>
UiNext ==
    \/ \E l \in Catalog(suite) : TypeLine(l)
    \/ ClearCode
    \/ \E e \in DimensionEntries : EnterDimensions(e[1], e[2])
    \/ ApplyDimensions
    \/ SaveCode
    \/ Reopen
UiSpec == UiInit /\ [][UiNext]_vars

(***************************************************************************)
(* Live preview: the checkbox, the input events of the editor and the      *)
(* debounce timers.  Handlers run one at a time and to completion, so an   *)
(* event is taken only when no parse is in flight.  A timer is [id,        *)
(* editor]: its id and, for the record, the editor's text when it was set. *)
(***************************************************************************)
\* how many timers are set in one behaviour
MaxTimers == 2
LiveInit == Init /\ suite = "live"
\* the change event of the livePreview checkbox
ToggleLivePreview ==
    /\ pc = "idle"
    /\ livePreviewEnabled' = ~livePreviewEnabled
    /\ UNCHANGED <<simVars, colorVars, uiVars, exprVars>>
    /\ UNCHANGED <<livePreviewTimeout, timers, timerCount, silentLog, lastEdit>>
\* the text of the editor after the user's edit with line l: l is added below, or
\* stands alone when the editor is full
Edited(text, l, limit) ==
    IF text = <<>> THEN l
    ELSE IF Len(SplitLines(text)) < limit THEN text \o <<"\n">> \o l
    ELSE l
\* setTimeout without the clearTimeout before it
SetTimerOnly(ts, old, new) == ts \cup {new}
\* clearTimeout(this.livePreviewTimeout); this.livePreviewTimeout = setTimeout(...)
SetTimer(ts, old, new) == {t \in ts : t.id # old} \cup {new}
\* the input event of the editor, after an edit with line l
Input(l) ==
    /\ pc = "idle"
    /\ livePreviewEnabled => timerCount < MaxTimers
    /\ code' = Edited(code, l, LineLimit(suite))
    /\ IF livePreviewEnabled
       THEN /\ timers' = SetTimer(timers, livePreviewTimeout, [id |-> timerCount + 1, editor |-> code'])
            /\ livePreviewTimeout' = timerCount + 1
            /\ timerCount' = timerCount + 1
       ELSE UNCHANGED <<timers, livePreviewTimeout, timerCount>>
    /\ lastEdit' = [live |-> livePreviewEnabled, renders |-> 0]
    /\ UNCHANGED <<suite, canvasW, canvasH, parser, pc, lines, i, errors, entry, lineLog, runLog>>
    /\ UNCHANGED <<colorVars, uiVars, exprVars, livePreviewEnabled, silentLog>>
\* timer t fires: render(true) clears the canvas and parse begins on the text the
\* editor holds now
TimerFires(t) ==
    /\ pc = "idle"
    /\ t \in timers
    /\ timers' = timers \ {t}
    /\ pc' = "running"
    /\ lines' = SourceLines(code, canvasW, canvasH)
    /\ i' = 0
    /\ errors' = <<>>
    /\ entry' = parser
    /\ lineLog' = <<>>
    /\ silentLog' = Append(silentLog, [enabled |-> livePreviewEnabled, timer |-> t, editor |-> code,
                                       lines |-> lines'])
    /\ lastEdit' = [lastEdit EXCEPT !.renders = @ + 1]
    /\ UNCHANGED <<suite, code, canvasW, canvasH, parser, runLog>>
    /\ UNCHANGED <<colorVars, uiVars, exprVars, livePreviewEnabled, livePreviewTimeout, timerCount>>
LiveNext ==
    \/ ToggleLivePreview
    \/ \E l \in Catalog(suite) : Input(l)
    \/ ClearCode
    \/ \E t \in timers : TimerFires(t)
    \/ ParseLine
    \/ ParseReturn
LiveSpec == LiveInit /\ [][LiveNext]_vars

(***************************************************************************)
(* Properties.  Line k of the parse in flight (or of the last one) is      *)
(* lines[k]; it has been processed when k <= Len(lineLog), and lineLog[k]  *)
(* tells what it did.  A line whose argument evaluation never returns is   *)
(* never processed: what the properties below say of a line, they say of   *)
(* every processed line, and ParseTerminates is the one that is about the  *)
(* lines that are not.                                                     *)
(***************************************************************************)
Processed == 1..Len(lineLog)
\* the parser's fields when line k began
PrevState(k) == IF k = 1 THEN entry ELSE lineLog[k - 1].st
\* the call that executeLine finds in a line: whether it is one, the command and
\* the argument values
CallOf(line) == MatchCall(StripSemicolon(Trim(line)))
CallRead(line, m) ==
    [call |-> ~IsSkipped(Trim(line)) /\ m.ok,
     command |-> m.command,
     args |-> IF m.ok THEN parseArguments(m.argsString).args ELSE <<>>]
CallInfo(line) == CallRead(line, CallOf(line))
Calls(line, command) == ~IsSkipped(Trim(line)) /\ CallOf(line).ok /\ CallOf(line).command = command
\* the diagnostics of line k (1-based) in a list of diagnostics
LinePrefix(k) == <<"L", "i", "n", "e", " ">> \o NatToStr(k) \o <<":", " ">>
DiagnosticsFor(errs, k) == {j \in 1..Len(errs) : StartsWith(errs[j], LinePrefix(k))}
HasOp(ops, o) == \E j \in 1..Len(ops) : ops[j] = o
Without(seq, f) == SubSeq(seq, 1, f - 1) \o SubSeq(seq, f + 1, Len(seq))

\* the loop of parse over the given lines from the fields st, as a function of its
\* inputs: what lineLog would hold after it
RECURSIVE Replay(_, _, _, _)
ReplayStep(r, rest, w, h) ==
    IF r.hung THEN <<>>
    ELSE <<[kind |-> IF r.threw THEN "failed" ELSE "executed", ops |-> r.ops, st |-> r.st,
            msg |-> r.msg]>> \o Replay(r.st, rest, w, h)
Replay(st, ls, w, h) ==
    IF ls = <<>> THEN <<>>
    ELSE IF IsSkipped(Trim(Head(ls)))
         THEN <<[kind |-> "skipped", ops |-> <<>>, st |-> st, msg |-> <<>>]>>
              \o Replay(st, Tail(ls), w, h)
         ELSE ReplayStep(executeLine(st, Trim(Head(ls)), w, h), Tail(ls), w, h)

RECURSIVE FailingLines(_, _)
FailingLines(log, k) ==
    IF k > Len(log) THEN <<>>
    ELSE (IF log[k].kind = "failed" THEN <<k>> ELSE <<>>) \o FailingLines(log, k + 1)
\* text reads "Line <n>: <msg>", <n> the decimal numeral of n that ends before index e
ReadsAs(text, n, msg, e) ==
    /\ StartsWith(text, <<"L", "i", "n", "e", " ">>)
    /\ e > 6 /\ text[6] # "0"
    /\ DigitsValue(text, 6, e, 10) = n
    /\ DropFirst(text, e - 1) = <<":", " ">> \o msg
IsDiagnosticOf(text, n, msg) == ReadsAs(text, n, msg, ScanRun(text, 6, Digits))
\* the lines of a text that are neither blank nor comments
CountedLines(text) ==
    {k \in 1..Len(SplitLines(text)) : ~IsSkipped(Trim(SplitLines(text)[k]))}
DiagnosticsMatch(run, failing) ==
    /\ Len(run.errors) = Len(failing)
    /\ \A j \in 1..Len(failing) :
          IsDiagnosticOf(run.errors[j], failing[j], run.log[failing[j]].msg)
    /\ Len(run.errors) <= Cardinality(CountedLines(code))
\* C2: the list a parse returned holds one entry per failing line and no other, in
\* the order of the lines, each "Line <n>: <message>" with n the 1-based number of
\* the line in the text (blank and comment lines counted) and <message> the message
\* of its Error; it is no longer than the text has non-blank, non-comment lines.
DiagnosticsList ==
    \A r \in 1..Len(runLog) : DiagnosticsMatch(runLog[r], FailingLines(runLog[r].log, 1))
\* a returned list of two diagnostics, for a text that begins with a skipped line
DiagnosticsListWitness ==
    \E r \in 1..Len(runLog) :
        /\ Len(runLog[r].errors) = 2
        /\ runLog[r].log[1].kind = "skipped"

\* C3: parse terminates whatever the argument expressions hold; it is never inside
\* the evaluation of an argument that does not return.
ParseTerminates == pc # "hung"

\* the 15 commands of the command table
Recognized ==
    {Cmd_fillScreen, Cmd_fillRect, Cmd_drawRect, Cmd_drawLine, Cmd_drawCircle, Cmd_fillCircle,
     Cmd_drawRoundRect, Cmd_fillRoundRect, Cmd_drawTriangle, Cmd_fillTriangle, Cmd_drawString,
     Cmd_setTextColor, Cmd_setTextSize, Cmd_setCursor, Cmd_println}
OneDiagnosticNaming(k, words) ==
    /\ Cardinality(DiagnosticsFor(errors, k)) = 1
    /\ \A j \in DiagnosticsFor(errors, k) : \A w \in words : Contains(errors[j], w)
\* line k failed before it called the painter or changed a field
FailedUntouched(k) ==
    /\ lineLog[k].kind = "failed"
    /\ lineLog[k].ops = <<>>
    /\ lineLog[k].st = PrevState(k)
UnknownCommandLine(c) == c.call /\ c.command \notin Recognized
UnknownCommandAt(k, c) ==
    UnknownCommandLine(c) => FailedUntouched(k) /\ OneDiagnosticNaming(k, {c.command})
MinArity(command) ==
    CASE command \in {Cmd_fillScreen, Cmd_setTextColor, Cmd_setTextSize, Cmd_println} -> 1
      [] command = Cmd_setCursor -> 2
      [] command = Cmd_drawString -> 3
      [] command \in {Cmd_fillCircle, Cmd_drawCircle} -> 4
      [] command \in {Cmd_fillRect, Cmd_drawRect, Cmd_drawLine} -> 5
      [] command \in {Cmd_fillRoundRect, Cmd_drawRoundRect} -> 6
      [] command \in {Cmd_fillTriangle, Cmd_drawTriangle} -> 7
IsArityMessage(msg, command) == StartsWith(msg, command \o <<" ", "r", "e", "q", "u", "i", "r", "e", "s", " ">>)
TooFew(c) == c.call /\ c.command \in Recognized /\ Len(c.args) < MinArity(c.command)
Enough(c) == c.call /\ c.command \in Recognized /\ Len(c.args) >= MinArity(c.command)
ArityCheckedAt(k, c) ==
    /\ TooFew(c) =>
          /\ FailedUntouched(k)
          /\ IsArityMessage(lineLog[k].msg, c.command)
          /\ OneDiagnosticNaming(k, {c.command, NatToStr(MinArity(c.command))})
    /\ Enough(c) =>
          \/ lineLog[k].kind = "executed" /\ DiagnosticsFor(errors, k) = {}
          \/ /\ lineLog[k].kind = "failed"
             /\ lineLog[k].ops # <<>>
             /\ ~IsArityMessage(lineLog[k].msg, c.command)
UseLine == SourceLines(L_fillRectMargin, canvasW, canvasH)[1]
\* C6: after the declaration int margin = 10; the call tft.fillRect(margin, margin,
\* WIDTH - margin*2, 50, TFT_BLUE) on a canvas 100 wide issues fillRect(10, 10, 80, 50).
DeclarationThenUse ==
    \A d \in Processed : \A k \in Processed :
        d < k /\ lines[d] = L_decl /\ lines[k] = UseLine /\ canvasW = 100 =>
            HasOp(lineLog[k].ops, Op("fillRect", <<IntV(10), IntV(10), IntV(80), IntV(50)>>))

\* the painter calls of a parse, line by line
PainterCalls(log) == [k \in 1..Len(log) |-> log[k].ops]
\* C7: two parses of the same text with the same dimensions issue the same painter
\* calls and return the same diagnostics, on one parser instance or on two.
RenderIdempotent ==
    \A a \in 1..Len(runLog) : \A b \in 1..Len(runLog) :
        runLog[a].w = runLog[b].w /\ runLog[a].h = runLog[b].h =>
            /\ PainterCalls(runLog[a].log) = PainterCalls(runLog[b].log)
            /\ runLog[a].errors = runLog[b].errors

\* C8: every parse begins with the cursor at (0,0), white text and text size 1.
RunScopedState ==
    pc = "running" =>
        /\ entry.cursorX = IntV(0) /\ entry.cursorY = IntV(0)
        /\ entry.textColor = <<"#", "F", "F", "F", "F", "F", "F">>
        /\ entry.textSize = IntV(1)

\* min(10, max(1, v))
Clamp(v) == IF NumLess(v, IntV(1)) THEN IntV(1) ELSE IF NumLess(IntV(10), v) THEN IntV(10) ELSE v
Monospace == <<"p", "x", " ", "m", "o", "n", "o", "s", "p", "a", "c", "e">>
\* a tft.setTextSize(v) with a number v
SetsTextSize(c) ==
    c.call /\ c.command = Cmd_setTextSize /\ Len(c.args) >= 1 /\ c.args[1].t = "num"
\* every font that line k sets is the one of the given text size
FontIs(k, size) ==
    \A j \in 1..Len(lineLog[k].ops) :
        lineLog[k].ops[j].op = "font" =>
            /\ lineLog[k].ops[j].args = <<Str(NumToStr(NumMul(IntV(8), size)) \o Monospace)>>
            /\ size = IntV(10) => lineLog[k].ops[j].args = <<Str(<<"8", "0">> \o Monospace)>>
            /\ size = IntV(1) => lineLog[k].ops[j].args = <<Str(<<"8">> \o Monospace)>>
TextSizeClampedAt(k, c) ==
    SetsTextSize(c) =>
        /\ lineLog[k].st.textSize = Clamp(c.args[1])
        /\ c.args[1] = IntV(99) => lineLog[k].st.textSize = IntV(10)
        /\ c.args[1] = IntV(0) => lineLog[k].st.textSize = IntV(1)
        /\ \A j \in Processed :
              (j > k /\ \A m \in (k + 1)..j : ~Calls(lines[m], Cmd_setTextSize)) =>
                  FontIs(j, Clamp(c.args[1]))
\* C9: after a processed tft.setTextSize(v) with a number v the text size is
\* min(10, max(1, v)), and every text draw up to the next setTextSize sets the
\* font of that size: 80px after setTextSize(99), 8px after setTextSize(0).
TextSizeClamped == \A k \in Processed : TextSizeClampedAt(k, CallInfo(lines[k]))
\* a text draw with the 80px font after tft.setTextSize(99), then a text draw with
\* the 8px font after tft.setTextSize(0) lowered the text size from 10
TextSizeWitness ==
    \E k \in Processed : \E j \in Processed : \E k0 \in Processed : \E j0 \in Processed :
        /\ k < j /\ j < k0 /\ k0 < j0
        /\ lines[k] = L_size99 /\ lineLog[k].kind = "executed"
        /\ HasOp(lineLog[j].ops, Op("font", <<Str(<<"8", "0">> \o Monospace)>>))
        /\ lines[k0] = L_size0 /\ lineLog[k0].kind = "executed"
        /\ PrevState(k0).textSize = IntV(10)
        /\ HasOp(lineLog[j0].ops, Op("font", <<Str(<<"8">> \o Monospace)>>))

\* line k is a tft.println(text) that began with numbers in the cursor
PrintsLine(k, c) ==
    /\ c.call /\ c.command = Cmd_println /\ Len(c.args) >= 1
    /\ PrevState(k).cursorX.t = "num" /\ PrevState(k).cursorY.t = "num"
    /\ PrevState(k).textSize.t = "num"
\* 8 * textSize * 1.5
Advance(size) == NumMul(NumMul(IntV(8), size), Num(3, 2))
\* a tft.setCursor(x, y) with numbers x and y
SetsCursor(c) ==
    /\ c.call /\ c.command = Cmd_setCursor /\ Len(c.args) >= 2
    /\ c.args[1].t = "num" /\ c.args[2].t = "num"
\* line k is the (k - s - 1)-th println after the setCursor of line s
FollowsCursor(k, c, s, sc) ==
    (SetsCursor(sc) /\ \A m \in (s + 1)..k : Calls(lines[m], Cmd_println)) =>
        HasOp(lineLog[k].ops,
              Op("fillText", <<c.args[1], sc.args[1],
                               NumAdd(sc.args[2], NumMul(IntV((k - s - 1) * 12), PrevState(k).textSize))>>))
CursorAdvanceAt(k, c) ==
    PrintsLine(k, c) =>
        /\ HasOp(lineLog[k].ops, Op("fillText", <<c.args[1], PrevState(k).cursorX, PrevState(k).cursorY>>))
        /\ lineLog[k].st.cursorX = PrevState(k).cursorX
        /\ lineLog[k].st.cursorY = NumAdd(PrevState(k).cursorY, Advance(PrevState(k).textSize))
        /\ \A s \in 1..(k - 1) : FollowsCursor(k, c, s, CallInfo(lines[s]))
\* C10: a processed println (the cursor holding numbers) draws its text at the
\* cursor as it was, leaves cursorX as it was and adds 8 * textSize * 1.5 to
\* cursorY; so the i-th of the printlns that directly follow setCursor(x, y)
\* (i from 0) draws at (x, y + i * 12 * textSize).
CursorAdvance == \A k \in Processed : CursorAdvanceAt(k, CallInfo(lines[k]))
\* two printlns directly after a setCursor, with a text size other than 1
CursorAdvanceWitness ==
    \E s \in Processed :
        /\ s + 2 \in Processed
        /\ SetsCursor(CallInfo(lines[s]))
        /\ PrintsLine(s + 1, CallInfo(lines[s + 1])) /\ PrintsLine(s + 2, CallInfo(lines[s + 2]))
        /\ PrevState(s).textSize # IntV(1)
        /\ lineLog[s + 2].st.cursorY # PrevState(s + 1).cursorY

(***************************************************************************)
(* The dimension symbols.                                                  *)
(***************************************************************************)
\* whether word stands in s as a whole word: with no letter, digit or underscore
\* next to it
WholeWordIn(s, word) ==
    \E p \in 1..Len(s) :
        /\ p + Len(word) - 1 <= Len(s)
        /\ \A j \in 1..Len(word) : s[p + j - 1] = word[j]
        /\ (p > 1 => s[p - 1] \notin LowerLetters \cup UpperLetters \cup Digits \cup {"_"})
        /\ (p + Len(word) <= Len(s) => s[p + Len(word)] \notin LowerLetters \cup UpperLetters \cup Digits \cup {"_"})
\* the decimal text of the widths and heights of Dims, written out
DecimalText(n) ==
    CASE n = 50 -> <<"5", "0">>
      [] n = 100 -> <<"1", "0", "0">>
      [] n = 240 -> <<"2", "4", "0">>
      [] n = 320 -> <<"3", "2", "0">>
\* what a line of DimensionLines reads once the symbols are replaced by w and h (an
\* empty editor is one empty line)
Substituted(line, w, h) ==
    CASE line = D_fillRect ->
           <<"t", "f", "t", ".", "f", "i", "l", "l", "R", "e", "c", "t", "(", "0", ",", "0", ",">> \o DecimalText(w) \o <<",">> \o DecimalText(h) \o <<",", "T", "F", "T", "_", "R", "E", "D", ")">>
      [] line = D_words ->
           <<"t", "f", "t", ".", "d", "r", "a", "w", "S", "t", "r", "i", "n", "g", "(", "\"", "w", "=">> \o DecimalText(w) \o <<"\"", ",", " ", "W", "I", "D", "T", "H", "S", ",", " ", "M", "Y", "_", "W", "I", "D", "T", "H", ")", ";", " ", "/", "/", " ">> \o DecimalText(h)
      [] line = D_comment ->
           <<"/", "/", " ">> \o DecimalText(w) \o <<" ", "x", " ">> \o DecimalText(h) \o <<",", " ", "n", "o", "t", " ", "H", "E", "I", "G", "H", "T", "S">>
      [] OTHER -> line
\* line k of the parse in flight reads as the source line with the symbols replaced
SubstitutedAt(k, src) ==
    /\ ~WholeWordIn(lines[k], <<"W", "I", "D", "T", "H">>)
    /\ ~WholeWordIn(lines[k], <<"H", "E", "I", "G", "H", "T">>)
    /\ suite = "dimensions" => lines[k] = Substituted(src, canvasW, canvasH)
\* the example: the whole 240 x 320 canvas filled with red
FullRed ==
    <<Op("fillStyle", <<Str(<<"r", "g", "b", "(", "2", "5", "5", ",", " ", "0", ",", " ", "0", ")">>)>>),
      Op("fillRect", <<IntV(0), IntV(0), IntV(240), IntV(320)>>)>>
FullRectAt(k, src) ==
    (src = D_fillRect /\ canvasW = 240 /\ canvasH = 320 /\ k \in Processed)
        => lineLog[k].kind = "executed" /\ lineLog[k].ops = FullRed

\* C11: while a parse runs, its lines are the lines of the editor with every
\* whole-word WIDTH and HEIGHT replaced by the decimal text of the canvas width and
\* height (in string literals and comments too, never inside WIDTHS or MY_WIDTH),
\* and tft.fillRect(0,0,WIDTH,HEIGHT,TFT_RED) on a 240 x 320 canvas sets the fill
\* to rgb(255, 0, 0) and fills (0, 0, 240, 320)
DimensionsSubstituted ==
    pc = "running" =>
        /\ Len(lines) = Len(SplitLines(code))
        /\ \A k \in 1..Len(lines) :
               /\ SubstitutedAt(k, SplitLines(code)[k])
               /\ FullRectAt(k, SplitLines(code)[k])
\* the full-canvas fillRect has run at 240 x 320 after the line with the symbols in
\* a string, in longer identifiers and in a comment
DimensionsWitness ==
    /\ pc = "running"
    /\ canvasW = 240
    /\ code = D_words \o <<"\n">> \o D_fillRect
    /\ Len(lineLog) = 2
    /\ lineLog[2].ops = FullRed

(***************************************************************************)
(* Colors.                                                                 *)
(***************************************************************************)
\* the integer nearest to k * 255 / max, for a field k of 0 .. max
Nearest(k, max) == CHOOSE r \in 0..255 : 2 * Abs(max * r - 255 * k) < max
\* the text rgb(r, g, b)
CssRgb(r, g, b) ==
    <<"r", "g", "b", "(">> \o NatToStr(r) \o <<",", " ">> \o NatToStr(g) \o <<",", " ">>
        \o NatToStr(b) \o <<")">>
\* the display color of the 16-bit value c: 5 bits of red, 6 of green, 5 of blue
DisplayColor(c) ==
    CssRgb(Nearest((c \div 2048) % 32, 31), Nearest((c \div 32) % 64, 63), Nearest(c % 32, 31))
\* the value of a number of the model that is a natural number
NatOf(v) == v.n
Rgb565Example(c, text) == colorInput = IntV(c) => displayColor = text

\* C12: rgb565ToRgb of a 16-bit value gives rgb(r, g, b) with each channel the
\* integer of 0 .. 255 nearest to its field scaled by 255 / 31 (red, blue) or
\* 255 / 63 (green); 0x07E0 gives (0, 255, 0), 0xF800 (255, 0, 0), 0x0000 (0, 0, 0)
\* and 0xFFFF (255, 255, 255)
Rgb565Scaled ==
    (colorStep = "rgb565ToRgb" /\ IsNum(colorInput)) =>
        /\ displayColor = DisplayColor(NatOf(colorInput))
        /\ Rgb565Example(2016, <<"r", "g", "b", "(", "0", ",", " ", "2", "5", "5", ",", " ", "0", ")">>)
        /\ Rgb565Example(63488, <<"r", "g", "b", "(", "2", "5", "5", ",", " ", "0", ",", " ", "0", ")">>)
        /\ Rgb565Example(0, <<"r", "g", "b", "(", "0", ",", " ", "0", ",", " ", "0", ")">>)
        /\ Rgb565Example(65535, <<"r", "g", "b", "(", "2", "5", "5", ",", " ", "2", "5", "5", ",", " ", "2", "5", "5", ")">>)
\* 0xC618, the value of three names of the table, has been converted
Rgb565Witness ==
    /\ colorStep = "rgb565ToRgb"
    /\ colorInput = IntV(50712)
    /\ displayColor = <<"r", "g", "b", "(", "1", "9", "7", ",", " ", "1", "9", "4", ",", " ", "1", "9", "7", ")">>

\* the color constant table as the specification gives it: name, RGB565 value in
\* hexadecimal
TableOfColors == <<
    <<<<"B", "L", "A", "C", "K">>, <<"0", "0", "0", "0">>>>,
    <<<<"N", "A", "V", "Y">>, <<"0", "0", "0", "F">>>>,
    <<<<"D", "A", "R", "K", "G", "R", "E", "E", "N">>, <<"0", "3", "E", "0">>>>,
    <<<<"D", "A", "R", "K", "C", "Y", "A", "N">>, <<"0", "3", "E", "F">>>>,
    <<<<"M", "A", "R", "O", "O", "N">>, <<"7", "8", "0", "0">>>>,
    <<<<"P", "U", "R", "P", "L", "E">>, <<"7", "8", "0", "F">>>>,
    <<<<"O", "L", "I", "V", "E">>, <<"7", "B", "E", "0">>>>,
    <<<<"L", "I", "G", "H", "T", "G", "R", "A", "Y">>, <<"C", "6", "1", "8">>>>,
    <<<<"L", "I", "G", "H", "T", "G", "R", "E", "Y">>, <<"C", "6", "1", "8">>>>,
    <<<<"D", "A", "R", "K", "G", "R", "A", "Y">>, <<"7", "B", "E", "F">>>>,
    <<<<"D", "A", "R", "K", "G", "R", "E", "Y">>, <<"7", "B", "E", "F">>>>,
    <<<<"B", "L", "U", "E">>, <<"0", "0", "1", "F">>>>,
    <<<<"G", "R", "E", "E", "N">>, <<"0", "7", "E", "0">>>>,
    <<<<"C", "Y", "A", "N">>, <<"0", "7", "F", "F">>>>,
    <<<<"R", "E", "D">>, <<"F", "8", "0", "0">>>>,
    <<<<"M", "A", "G", "E", "N", "T", "A">>, <<"F", "8", "1", "F">>>>,
    <<<<"Y", "E", "L", "L", "O", "W">>, <<"F", "F", "E", "0">>>>,
    <<<<"W", "H", "I", "T", "E">>, <<"F", "F", "F", "F">>>>,
    <<<<"O", "R", "A", "N", "G", "E">>, <<"F", "D", "2", "0">>>>,
    <<<<"G", "R", "E", "E", "N", "Y", "E", "L", "L", "O", "W">>, <<"A", "F", "E", "5">>>>,
    <<<<"P", "I", "N", "K">>, <<"F", "8", "1", "F">>>>,
    <<<<"B", "R", "O", "W", "N">>, <<"9", "A", "6", "0">>>>,
    <<<<"G", "O", "L", "D">>, <<"F", "E", "A", "0">>>>,
    <<<<"S", "I", "L", "V", "E", "R">>, <<"C", "6", "1", "8">>>>,
    <<<<"S", "K", "Y", "B", "L", "U", "E">>, <<"8", "6", "7", "D">>>>,
    <<<<"V", "I", "O", "L", "E", "T">>, <<"9", "1", "5", "C">>>>,
    <<<<"G", "R", "A", "Y">>, <<"8", "4", "1", "0">>>>,
    <<<<"G", "R", "E", "Y">>, <<"8", "4", "1", "0">>>> >>
TableValue(k) == DigitsValue(TableOfColors[k][2], 1, 5, 16)
TableName(k) == Str(TFTPrefix \o TableOfColors[k][1])
\* the alias pairs, by their places in TableOfColors
AliasPairs == {<<8, 9>>, <<10, 11>>, <<27, 28>>}
ResolvedAs(k) == colorInput = TableName(k) => displayColor = DisplayColor(TableValue(k))
SameAsAlias(p) ==
    colorInput = TableName(p[1]) => displayColor = resolveColor(TableName(p[2]))

UnresolvableColorLines == {A_noName, A_banana, A_hexZZ}
\* white, in either notation
Whites == {Str(White), Str(<<"r", "g", "b", "(", "2", "5", "5", ",", " ", "2", "5", "5", ",", " ", "2", "5", "5", ")">>)}
PaintsWhite(k) ==
    /\ lineLog[k].kind = "executed"
    /\ Len(lineLog[k].ops) = 2
    /\ lineLog[k].ops[1].op = "fillStyle"
    /\ lineLog[k].ops[1].args[1] \in Whites
    /\ lineLog[k].ops[2] = Op("fillRect", <<IntV(0), IntV(0), IntV(canvasW), IntV(canvasH)>>)

\* C14: a processed fillScreen whose color argument is an unknown TFT_ name, an
\* opaque token or a malformed hex literal fills the canvas with white and gives no
\* diagnostic
UnresolvedColorIsWhite ==
    \A k \in Processed : lines[k] \in UnresolvableColorLines => PaintsWhite(k)

\* an argument list that begins with a quoted string: where that string closes (at
\* the next quote of the same kind with no backslash before it), and its text
QuoteChars == {"\"", "'"}
ClosingQuotes(a) == {j \in 2..Len(a) : a[j] = a[1] /\ a[j - 1] # "\\"}
BeginsQuoted(a) == CharAt(a, 1) \in QuoteChars /\ ClosingQuotes(a) # {}
QuotedText(a) == SubSeq(a, 2, MinOf(ClosingQuotes(a)) - 1)
\* (a call that is handed no value at all is the matter of ArgumentsCounted)
FirstHandedVerbatim(a, args) ==
    (BeginsQuoted(a) /\ Len(args) >= 1) => args[1] = Str(QuotedText(a))
QuotedVerbatimAt(c, m) == c.call => FirstHandedVerbatim(TrimLeft(m.argsString), c.args)

\* C15: in a processed call whose first argument is a quoted string, the first
\* value handed to the command is the string of exactly the text between the quotes
QuotedTextVerbatim ==
    \A k \in Processed : QuotedVerbatimAt(CallInfo(lines[k]), CallOf(lines[k]))

\* the tokens of a call's argument list, as parseArguments hands them to parseValue
TokensOf(m) ==
    IF Trim(m.argsString) = <<>> THEN <<>>
    ELSE SplitArguments(m.argsString, 1, <<>>, FALSE, "", 0)
\* a token made of decimal literals, + - * /, unary minus, parentheses and blanks
ArithmeticChars == Digits \cup OperatorChars \cup {".", " "}
IsArithmetic(tok) == \A j \in 1..Len(tok) : tok[j] \in ArithmeticChars
\* a token that goes to the expression step of parseValue
IsExpression(tok) ==
    /\ \E j \in 1..Len(tok) : tok[j] \in OperatorChars
    /\ ~StartsWith(tok, TFTPrefix)
    /\ ~StartsWith(tok, <<"0", "x">>)
\* what parseValue hands over when the evaluation of the token fails
Unevaluated(tok) == NumberOrText(tok, ParseFloat(tok)).v
NotRunAt(toks, args) ==
    \A j \in 1..Len(toks) :
        (j <= Len(args) /\ IsExpression(toks[j]) /\ ~IsArithmetic(toks[j]))
            => args[j] = Unevaluated(toks[j])
OnlyArithmeticAt(c, m) == c.call => NotRunAt(TokensOf(m), c.args)

\* C16: in a processed call, a token with an operator or a parenthesis that holds
\* anything but decimal literals, + - * /, unary minus and parentheses is not run:
\* its evaluation fails, and the command gets the number the token begins with or
\* the token's text
OnlyArithmeticEvaluated ==
    \A k \in Processed : OnlyArithmeticAt(CallInfo(lines[k]), CallOf(lines[k]))

\* C19: the text size of the parser is an integer between 1 and 10
TextSizeInteger == parser.textSize \in {IntV(n) : n \in 1..10}

\* the commas of s from index k on that lie outside quoted strings and outside
\* parentheses; quote is the character that opened the string the scan is in ("" in
\* none), and a quote right after a backslash neither opens nor closes a string
RECURSIVE TopLevelCommas(_, _, _, _)
TopLevelCommas(s, k, quote, depth) ==
    IF k > Len(s) THEN 0
    ELSE IF s[k] \in QuoteChars /\ (k = 1 \/ s[k - 1] # "\\")
         THEN TopLevelCommas(s, k + 1,
                             IF quote = "" THEN s[k] ELSE IF quote = s[k] THEN "" ELSE quote,
                             depth)
    ELSE IF quote # "" THEN TopLevelCommas(s, k + 1, quote, depth)
    ELSE IF s[k] = "(" THEN TopLevelCommas(s, k + 1, quote, depth + 1)
    ELSE IF s[k] = ")" THEN TopLevelCommas(s, k + 1, quote, depth - 1)
    ELSE (IF s[k] = "," /\ depth = 0 THEN 1 ELSE 0) + TopLevelCommas(s, k + 1, quote, depth)
ItemCount(a) == IF Trim(a) = <<>> THEN 0 ELSE 1 + TopLevelCommas(a, 1, "", 0)
CountedAt(c, m) == c.call => Len(c.args) = ItemCount(m.argsString)

\* C20: a processed call is handed as many values as its argument list has items:
\* none for a blank list, otherwise one more than the list has commas outside quoted
\* strings and at parenthesis depth 0
ArgumentsCounted ==
    \A k \in Processed : CountedAt(CallInfo(lines[k]), CallOf(lines[k]))

(***************************************************************************)
(* The page.                                                               *)
(***************************************************************************)
\* C17: whenever the content of the editor changes, localStorage holds an item
\* whose code is the new content
EditorAutoSaved == [][code' # code => (stored'.saved /\ stored'.code = code')]_vars

\* C18: the width and the height of the canvas are integers of 1 .. 1920
CanvasInRange == canvasW \in 1..MaxDimension /\ canvasH \in 1..MaxDimension

(***************************************************************************)
(* Lines and the call form.                                                *)
(***************************************************************************)
\* whether text t holds, anywhere, tft. then a name then ( and later a )
HoldsCall(t) ==
    \E p \in 1..Len(t) : \E q \in (p + 5)..Len(t) : \E r \in (q + 1)..Len(t) :
        /\ SubSeq(t, p, p + 3) = TftDot
        /\ \A j \in (p + 4)..(q - 1) : t[j] \in WordChars
        /\ t[q] = "("
        /\ t[r] = ")"
\* a line that is blank, a comment, or holds no call at all
NoStatement(t) ==
    \/ t = <<>>
    \/ Len(t) >= 2 /\ t[1] = "/" /\ t[2] \in {"/", "*"}
    \/ Len(t) >= 1 /\ t[1] = "*"
    \/ ~HoldsCall(t)
InertAt(k) ==
    /\ lineLog[k].kind # "failed"
    /\ lineLog[k].ops = <<>>
    /\ lineLog[k].st = PrevState(k)
    /\ DiagnosticsFor(errors, k) = {}

ShapeCommands ==
    {Cmd_fillScreen, Cmd_fillRect, Cmd_drawRect, Cmd_drawLine, Cmd_drawCircle, Cmd_fillCircle,
     Cmd_drawRoundRect, Cmd_fillRoundRect, Cmd_drawTriangle, Cmd_fillTriangle}
\* before and after agree on every field outside the given set
SameExcept(before, after, fields) ==
    \A f \in {"textColor", "textSize", "cursorX", "cursorY"} \ fields : after[f] = before[f]
FieldsKeptAt(k, c) ==
    c.call =>
        /\ c.command \in ShapeCommands \cup {Cmd_drawString} =>
               SameExcept(PrevState(k), lineLog[k].st, {})
        /\ c.command = Cmd_setTextColor =>
               lineLog[k].ops = <<>> /\ SameExcept(PrevState(k), lineLog[k].st, {"textColor"})
        /\ c.command = Cmd_setTextSize =>
               lineLog[k].ops = <<>> /\ SameExcept(PrevState(k), lineLog[k].st, {"textSize"})
        /\ c.command = Cmd_setCursor =>
               lineLog[k].ops = <<>>
               /\ SameExcept(PrevState(k), lineLog[k].st, {"cursorX", "cursorY"})
        /\ c.command = Cmd_println =>
               SameExcept(PrevState(k), lineLog[k].st, {"cursorY"})
SettersBefore(k, command) ==
    {j \in 1..(k - 1) : lineLog[j].kind = "executed" /\ Calls(lines[j], command)}
Latest(S) == CHOOSE j \in S : \A m \in S : m <= j
ColorSetBefore(S, start) == IF S = {} THEN start ELSE lineLog[Latest(S)].st.textColor
SizeSetBefore(S, start) == IF S = {} THEN start ELSE lineLog[Latest(S)].st.textSize
\* line k is a drawString or println that drew
DrawsText(k) ==
    /\ lineLog[k].kind = "executed"
    /\ Calls(lines[k], Cmd_drawString) \/ Calls(lines[k], Cmd_println)
\* a text draw of line k fills with the color and sets the font of the latest
\* setters before it, or of the given start values when there is none
TextStyleAt(k, startColor, startSize) ==
    DrawsText(k) =>
        /\ HasOp(lineLog[k].ops,
                 Op("fillStyle", <<Str(ColorSetBefore(SettersBefore(k, Cmd_setTextColor), startColor))>>))
        /\ HasOp(lineLog[k].ops,
                 Op("font", <<Str(NumToStr(NumMul(IntV(8),
                                     SizeSetBefore(SettersBefore(k, Cmd_setTextSize), startSize)))
                                  \o Monospace)>>))
        /\ \A j \in 1..Len(lineLog[k].ops) :
              lineLog[k].ops[j].op \in {"fillStyle", "font"} =>
                  lineLog[k].ops[j].args \in
                      {<<Str(ColorSetBefore(SettersBefore(k, Cmd_setTextColor), startColor))>>,
                       <<Str(NumToStr(NumMul(IntV(8),
                                SizeSetBefore(SettersBefore(k, Cmd_setTextSize), startSize)))
                             \o Monospace)>>}
\* C23: every processed drawString and println paints with the color of the latest
\* successful setTextColor before it in the program, white when there is none, and
\* with the font of 8 times the size of the latest successful setTextSize before
\* it, size 1 when there is none
TextStyleFollowsSetters == \A k \in Processed : TextStyleAt(k, White, IntV(1))
\* the same with the parser's fields at the start of the parse in the place of
\* white and size 1
TextStyleFromEntry == \A k \in Processed : TextStyleAt(k, entry.textColor, entry.textSize)

(***************************************************************************)
(* Unquoted arguments: numbers, expressions and words.                     *)
(***************************************************************************)
\* tok is the text of a decimal number as a whole: digits with at most one point
DecimalNumberText(tok) ==
    /\ tok # <<>>
    /\ \A j \in 1..Len(tok) : tok[j] \in Digits \cup {"."}
    /\ \E j \in 1..Len(tok) : tok[j] \in Digits
    /\ Cardinality({j \in 1..Len(tok) : tok[j] = "."}) <= 1
\* a token that is neither the name of a color constant nor a hexadecimal literal
PlainToken(tok) == ~StartsWith(tok, TFTPrefix) /\ ~StartsWith(tok, <<"0", "x">>)
\* the j-th value of a call is a number exactly when its token is a decimal number
\* or an expression that evaluates, and is the token's text otherwise
WholeTokenAt(tok, ev, value) ==
    PlainToken(tok) =>
        IF DecimalNumberText(tok) \/ ev.st = "ok" THEN value.t # "str" ELSE value = Str(tok)
WholeTokensAt(c, toks) ==
    (c.call /\ Len(toks) = Len(c.args)) =>
        \A j \in 1..Len(toks) : WholeTokenAt(toks[j], evaluateExpression(toks[j]), c.args[j])
\* the argument list holds no quote character
Unquoted(m) == \A j \in 1..Len(m.argsString) : m.argsString[j] \notin QuoteChars

\* C24: in a processed call without quoted arguments, a token that is neither a
\* color constant nor a hexadecimal literal becomes a number only when the whole
\* token is a decimal number or an expression that evaluates; any other token is
\* handed to the command as its text
WholeTokenNumbers ==
    \A k \in Processed :
        Unquoted(CallOf(lines[k])) => WholeTokensAt(CallInfo(lines[k]), TokensOf(CallOf(lines[k])))

(***************************************************************************)
(* The line as a whole.                                                    *)
(***************************************************************************)
\* text t begins with tft. then a name then ( and holds a ) after it
BeginsWithCall(t) ==
    /\ Len(t) >= 6
    /\ SubSeq(t, 1, 4) = TftDot
    /\ \E q \in 6..Len(t) : \E r \in (q + 1)..Len(t) :
          /\ \A j \in 5..(q - 1) : t[j] \in WordChars
          /\ t[q] = "("
          /\ t[r] = ")"
\* C25: a processed line on which a command was dispatched (it painted, changed the
\* parser's fields or gave a diagnostic) is, trimmed and without its final
\* semicolon, a call from its first character on: nothing stands before tft.
WholeLineCalls ==
    \A k \in Processed : ~InertAt(k) => BeginsWithCall(StripSemicolon(Trim(lines[k])))

(***************************************************************************)
(* The argument text of a call.                                            *)
(***************************************************************************)
\* the index of the parenthesis that closes the one opened before index k of t, 0
\* when there is none; depth counts the parentheses open at k, quote is the
\* character of the string the scan is in ("" in none)
RECURSIVE ClosingAt(_, _, _, _)
ClosingAt(t, k, depth, quote) ==
    IF k > Len(t) THEN 0
    ELSE IF quote # "" THEN ClosingAt(t, k + 1, depth, IF t[k] = quote THEN "" ELSE quote)
    ELSE IF t[k] \in QuoteChars THEN ClosingAt(t, k + 1, depth, t[k])
    ELSE IF t[k] = "(" THEN ClosingAt(t, k + 1, depth + 1, quote)
    ELSE IF t[k] = ")" THEN (IF depth = 1 THEN k ELSE ClosingAt(t, k + 1, depth - 1, quote))
    ELSE ClosingAt(t, k + 1, depth, quote)
\* the index of the first ( of t
OpeningOf(t) == CHOOSE q \in 1..Len(t) : t[q] = "(" /\ \A j \in 1..(q - 1) : t[j] # "("
\* for a line that begins with a call, the argument text is what stands between the
\* opening parenthesis and the one that closes it
ArgumentTextAt(t, m, open) ==
    ClosingAt(t, open + 1, 1, "") # 0 =>
        /\ m.ok
        /\ m.argsString = SubSeq(t, open + 1, ClosingAt(t, open + 1, 1, "") - 1)
ArgumentTextOf(t, m) == BeginsWithCall(t) => ArgumentTextAt(t, m, OpeningOf(t))
\* C28: the argument text of a processed line that begins with a call is the text
\* between the opening parenthesis and its matching close; a comment or a second
\* statement after the call is no part of it
ArgumentsEndAtClose ==
    \A k \in Processed :
        ~IsSkipped(Trim(lines[k])) =>
            ArgumentTextOf(StripSemicolon(Trim(lines[k])), CallOf(lines[k]))

(***************************************************************************)
(* Malformed arithmetic.                                                   *)
(***************************************************************************)
\* a token of digits, operators and parentheses whose evaluation throws
Malformed(tok) ==
    IsArithmetic(tok) /\ IsExpression(tok) /\ evaluateExpression(tok).st = "throw"
\* a token of digits, operators and parentheses whose evaluation gives a value
WellFormed(tok) ==
    IsArithmetic(tok) /\ IsExpression(tok) /\ evaluateExpression(tok).st = "ok"
MalformedReportedAt(k, c, toks) ==
    c.call =>
        /\ (\E j \in 1..Len(toks) : Malformed(toks[j])) => DiagnosticsFor(errors, k) # {}
        /\ (/\ \A j \in 1..Len(toks) : DecimalNumberText(toks[j]) \/ WellFormed(toks[j])
            /\ lineLog[k].kind = "executed") => DiagnosticsFor(errors, k) = {}
\* C27: a processed call with a malformed arithmetic argument has a diagnostic for
\* its line, and a call whose arguments are all numbers or well-formed arithmetic,
\* and which the command accepts, has none
MalformedReported ==
    \A k \in Processed : MalformedReportedAt(k, CallInfo(lines[k]), TokensOf(CallOf(lines[k])))

(***************************************************************************)
(* Arithmetic: precedence and association.                                 *)
(***************************************************************************)
\* the number an operand stands for on the 240 x 320 canvas
OperandValue(t) ==
    CASE t = <<"W", "I", "D", "T", "H">> -> 240
      [] t = <<"H", "E", "I", "G", "H", "T">> -> 320
      [] t = <<"1", "0">> -> 10
      [] t = <<"2">> -> 2
      [] t = <<"4", "0">> -> 40
      [] t = <<"7">> -> 7
Apply(o, x, y) == IF o = "+" THEN x + y ELSE IF o = "-" THEN x - y ELSE x * y
\* the value of x o1 y o2 z by the rules of arithmetic: * before + and -, and
\* operators of one level from left to right
Standard(o1, o2, x, y, z) ==
    IF o2 = "*" /\ o1 # "*" THEN Apply(o1, x, Apply(o2, y, z)) ELSE Apply(o2, Apply(o1, x, y), z)
Expected(e, x, y, z) ==
    IF e.form = "left" THEN Apply(e.o2, Apply(e.o1, x, y), z)
    ELSE IF e.form = "right" THEN Apply(e.o1, x, Apply(e.o2, y, z))
    ELSE Standard(e.o1, e.o2, x, y, z)
WidthLess20 ==
    [a |-> <<"W", "I", "D", "T", "H">>, o1 |-> "-", b |-> <<"1", "0">>, o2 |-> "*", c |-> <<"2">>,
     form |-> "flat"]
WidthLess40Twice ==
    [a |-> <<"W", "I", "D", "T", "H">>, o1 |-> "-", b |-> <<"4", "0">>, o2 |-> "*", c |-> <<"2">>,
     form |-> "left"]
\* C26: an argument a op b op c, (a op b) op c or a op (b op c) over WIDTH, HEIGHT
\* and integer literals with + - * has, once parsed on the 240 x 320 canvas, the
\* value that precedence of * and association from the left give it; WIDTH - 10 * 2
\* is 220 and (WIDTH - 40) * 2 is 400
ArithmeticStandard ==
    exprStep = "parsed" =>
        /\ exprValue = [st |-> "ok",
                        v |-> IntV(Expected(exprInput, OperandValue(exprInput.a),
                                            OperandValue(exprInput.b), OperandValue(exprInput.c)))]
        /\ exprInput = WidthLess20 => exprValue.v = IntV(220)
        /\ exprInput = WidthLess40Twice => exprValue.v = IntV(400)
\* WIDTH - 10 * 2 has been parsed to 220
ArithmeticWitness ==
    /\ exprStep = "parsed"
    /\ exprInput = WidthLess20
    /\ exprText = <<"2", "4", "0", " ", "-", " ", "1", "0", " ", "*", " ", "2">>
    /\ exprValue.v = IntV(220)

(***************************************************************************)
(* Live preview.                                                           *)
(***************************************************************************)
\* C29: every silent render ran with live preview enabled
SilentOnlyWhenEnabled == \A j \in 1..Len(silentLog) : silentLog[j].enabled

\* C30: at most one debounce timer is pending, and it is the one the last input
\* event set; after an input event taken with live preview enabled either its
\* timer is pending and no silent render has run since, or no timer is pending and
\* exactly one silent render has run since; and every silent render parsed the
\* text the editor held when its timer fired
DebounceSingle ==
    /\ Cardinality(timers) <= 1
    /\ \A t \in timers : t.id = livePreviewTimeout
    /\ lastEdit.live =>
          \/ timers # {} /\ lastEdit.renders = 0
          \/ timers = {} /\ lastEdit.renders = 1
    /\ \A j \in 1..Len(silentLog) :
          silentLog[j].lines = SourceLines(silentLog[j].editor, canvasW, canvasH)
\* after a burst of two input events with live preview enabled and a click on Clear,
\* the one silent render has run and returned, on the emptied editor and not on the
\* text its timer was set with
DebounceWitness ==
    /\ livePreviewEnabled
    /\ timerCount = 2
    /\ timers = {}
    /\ lastEdit = [live |-> TRUE, renders |-> 1]
    /\ Len(silentLog) = 1
    /\ silentLog[1].timer.id = 2
    /\ silentLog[1].timer.editor # silentLog[1].editor
    /\ silentLog[1].editor = <<>>
    /\ pc = "idle"
    /\ Len(runLog) = 1

=============================================================================
